---- MODULE Spec2Model ----
(***************************************************************************)
(* Model of the environment agent: docker_controller.py (deploy, destroy,  *)
(* monitor, scale-up) against a container runtime whose calls may fail.    *)
(*                                                                         *)
(* Every runtime call, the connection of deploy and teardown included, is  *)
(* a step whose outcome (success, not found, API error, other exception)   *)
(* is chosen nondeterministically where the runtime state allows it.       *)
(***************************************************************************)
EXTENDS Integers, Sequences, FiniteSets, TLC

\* ------------------------------------------------------------------ bounds
NumEnvIds == 2
MaxRetries == 2
MaxFail == 3
MaxReplicaIds == 2
MaxCpuTicks == 2

EnvIds == 1..NumEnvIds
ReplicaIds == 1..MaxReplicaIds

\* ---------------------------------------------------------------- manifest
\* config['services'] in file order; "web" is the externally routed service.
Services == <<"web", "db">>
SvcSet == {Services[i] : i \in 1..Len(Services)}

\* optimization_rules entries; the last one lacks the 'metric' key.
RuleCpu80 == [metric |-> "cpu_usage", action |-> "scale_up", threshold |-> 80]
RuleCpu50 == [metric |-> "cpu_usage", action |-> "scale_up", threshold |-> 50]
RuleMem == [metric |-> "memory_usage", action |-> "scale_up", threshold |-> 10]
RuleNoMetric == [action |-> "scale_up", threshold |-> 80]
RuleCpu0 == [metric |-> "cpu_usage", action |-> "scale_up", threshold |-> 0]
RuleCpu28 == [metric |-> "cpu_usage", action |-> "scale_up", threshold |-> 28]

\* ------------------------------------------------------------ stats snapshots
\* A snapshot of container.stats(stream=False) holds the keys that
\* _calculate_cpu_percent reads; a key the snapshot lacks is a field the
\* record lacks. NoKey marks, in the operators that build snapshots, a key
\* to leave out (the values of the keys are counters, never negative).
NoKey == -1

\* The mapping d without its key k
Without(d, k) == [x \in DOMAIN d \ {k} |-> d[x]]

Field(name, v) == IF v = NoKey THEN <<>> ELSE (name :> v)

\* percpu_usage with n entries
PerCpuField(n) ==
    IF n = NoKey THEN <<>> ELSE ("percpu_usage" :> [i \in 1..n |-> 0])

Snapshot(total, pre_total, system, pre_system, online, percpu) ==
    [cpu_stats |->
        [cpu_usage |-> Field("total_usage", total) @@ PerCpuField(percpu)]
            @@ Field("system_cpu_usage", system)
            @@ Field("online_cpus", online),
     precpu_stats |->
        [cpu_usage |-> Field("total_usage", pre_total)]
            @@ Field("system_cpu_usage", pre_system)]

HasKey(d, k) == k \in DOMAIN d

\* An entry of 'ports' as yaml.safe_load gives it: a text ("80:5000") or a
\* number (5000)
Text(text) == [type |-> "str", text |-> text]

Number(text) == [type |-> "int", text |-> text]

\* ------------------------------------------------------------------ binary64
\* The float of line 423. A positive value is 1.f x 2^e: m holds the bits of
\* the significand, leading bit first, and e the exponent of the leading
\* bit; 0.0 has no bits. Every operation rounds its exact result to the
\* nearest value, ties to the even significand.
Precision == 53

F64Zero == [m |-> <<>>, e |-> 0]

\* The binary digits of n > 0, leading bit first
RECURSIVE BitsOf(_)
BitsOf(n) == IF n = 0 THEN <<>> ELSE Append(BitsOf(n \div 2), n % 2)

\* bits + 1, one bit longer when every bit is 1
RECURSIVE Increment(_)
Increment(bits) ==
    IF bits = <<>> THEN <<1>>
    ELSE IF bits[Len(bits)] = 0
         THEN Append(SubSeq(bits, 1, Len(bits) - 1), 1)
    ELSE Append(Increment(SubSeq(bits, 1, Len(bits) - 1)), 0)

\* bits followed by the zeros that make it Precision bits long
Padded(bits) ==
    IF Len(bits) >= Precision THEN bits
    ELSE bits \o [i \in 1..(Precision - Len(bits)) |-> 0]

\* The exact value has the leading bits `bits` (the first is 1, of exponent
\* e) followed, when sticky, by further bits that are not all 0.
RoundNearestEven(bits, sticky, e) ==
    IF Len(bits) <= Precision
    THEN [m |-> Padded(bits), e |-> e]
    ELSE LET kept == SubSeq(bits, 1, Precision)
             half == bits[Precision + 1] = 1
             rest == sticky
                        \/ \E i \in (Precision + 2)..Len(bits) : bits[i] = 1
             up   == half /\ (rest \/ kept[Precision] = 1)
             inc  == Increment(kept)
         IN IF ~up THEN [m |-> kept, e |-> e]
            ELSE IF Len(inc) > Precision
                 THEN [m |-> SubSeq(inc, 1, Precision), e |-> e + 1]
            ELSE [m |-> inc, e |-> e]

\* Long division of the integer with digits abits by b > 0, one quotient bit
\* per step (step i brings down digit i, or 0 past the last digit), until
\* the quotient has Precision + 1 bits from its leading 1; r is the
\* remainder so far.
RECURSIVE LongDivision(_, _, _, _, _)
LongDivision(abits, b, i, r, q) ==
    LET down == IF i <= Len(abits) THEN abits[i] ELSE 0
        t    == 2 * r + down
        bit  == IF t >= b THEN 1 ELSE 0
        rem  == t - bit * b
        q2   == IF q.bits = <<>> /\ bit = 0 THEN q
                ELSE [bits |-> Append(q.bits, bit),
                      e |-> IF q.bits = <<>> THEN Len(abits) - i ELSE q.e]
    IN IF Len(q2.bits) = Precision + 1
       THEN [bits |-> q2.bits, e |-> q2.e, sticky |-> rem # 0]
       ELSE LongDivision(abits, b, i + 1, rem, q2)

\* a / b for integers a > 0 and b > 0
F64Div(a, b) ==
    LET q == LongDivision(BitsOf(a), b, 1, 0, [bits |-> <<>>, e |-> 0])
    IN RoundNearestEven(q.bits, q.sticky, q.e)

\* The digits of (the integer with digits bits) x n + carry
RECURSIVE Times(_, _, _)
Times(bits, n, carry) ==
    IF bits = <<>> THEN BitsOf(carry)
    ELSE LET t     == bits[Len(bits)] * n + carry
             front == SubSeq(bits, 1, Len(bits) - 1)
         IN IF t < 2 THEN Append(Times(front, n, 0), t)
            ELSE Append(Times(front, n, t \div 2), t % 2)

\* x * n for an integer n >= 0 (an int, or a float such as 100.0)
F64Mul(x, n) ==
    IF x = F64Zero \/ n = 0 THEN F64Zero
    ELSE LET p == Times(x.m, n, 0)
         IN RoundNearestEven(p, FALSE, x.e + Len(p) - Precision)

\* x = t for an integer t
F64EqualsInt(x, t) ==
    IF t = 0 THEN x = F64Zero
    ELSE /\ t > 0
         /\ x # F64Zero
         /\ x.e = Len(BitsOf(t)) - 1
         /\ x.m = Padded(BitsOf(t))

\* x > t for an integer t
F64GreaterThanInt(x, t) ==
    IF t < 0 THEN TRUE
    ELSE IF x = F64Zero THEN FALSE
    ELSE IF t = 0 THEN TRUE
    ELSE IF x.e # Len(BitsOf(t)) - 1 THEN x.e > Len(BitsOf(t)) - 1
    ELSE \E i \in 1..Precision :
            /\ x.m[i] > Padded(BitsOf(t))[i]
            /\ \A j \in 1..(i - 1) : x.m[j] = Padded(BitsOf(t))[j]

\* line 417
CpuDelta(st) ==
    st.cpu_stats.cpu_usage.total_usage - st.precpu_stats.cpu_usage.total_usage

\* line 418
SystemDelta(st) ==
    st.cpu_stats.system_cpu_usage - st.precpu_stats.system_cpu_usage

\* lines 417-418 raise KeyError: one of the four values read, or a mapping
\* on the way to it, is missing
DeltaKeyError(st) ==
    \/ ~HasKey(st, "cpu_stats")
    \/ ~HasKey(st.cpu_stats, "cpu_usage")
    \/ ~HasKey(st.cpu_stats.cpu_usage, "total_usage")
    \/ ~HasKey(st, "precpu_stats")
    \/ ~HasKey(st.precpu_stats, "cpu_usage")
    \/ ~HasKey(st.precpu_stats.cpu_usage, "total_usage")
    \/ ~HasKey(st.cpu_stats, "system_cpu_usage")
    \/ ~HasKey(st.precpu_stats, "system_cpu_usage")

\* line 422: stats['cpu_stats'].get('online_cpus', 1) is used unless it is 0
OnlineFromKey(st) ==
    IF HasKey(st.cpu_stats, "online_cpus") THEN st.cpu_stats.online_cpus ELSE 1

\* line 422 raises KeyError: the count is 0 and there is no percpu_usage
OnlineKeyError(st) ==
    OnlineFromKey(st) = 0 /\ ~HasKey(st.cpu_stats.cpu_usage, "percpu_usage")

\* line 422: online_cpus
OnlineCpus(st) ==
    IF OnlineFromKey(st) # 0 THEN OnlineFromKey(st)
    ELSE Len(st.cpu_stats.cpu_usage.percpu_usage)

\* lines 412-426: _calculate_cpu_percent
CalculateCpuPercent(st) ==
    IF DeltaKeyError(st) THEN F64Zero
    ELSE IF SystemDelta(st) > 0 /\ CpuDelta(st) > 0
         THEN IF OnlineKeyError(st) THEN F64Zero
              ELSE F64Mul(F64Mul(F64Div(CpuDelta(st), SystemDelta(st)),
                                 OnlineCpus(st)),
                          100)
         ELSE F64Zero

\* Values of the counters total_usage and system_cpu_usage
CounterValues == 0..MaxCpuTicks

\* Snapshots with every value read by line 417, 418 or 422 present or
\* absent (Leaves); snapshots that lack one of the mappings cpu_stats,
\* precpu_stats or their cpu_usage; snapshots whose percpu_usage is empty
StatsInputs ==
    LET Leaves ==
            {Snapshot(total, pre_total, system, pre_system, online, percpu) :
                total \in CounterValues \cup {NoKey},
                pre_total \in CounterValues \cup {NoKey},
                system \in CounterValues \cup {NoKey},
                pre_system \in CounterValues \cup {NoKey},
                online \in {NoKey, 0, 1, 2},
                percpu \in {NoKey, 2}}
        Whole ==
            {Snapshot(total, 0, system, 0, 1, NoKey) :
                total \in CounterValues, system \in CounterValues}
    IN Leaves
        \cup {Without(st, k) : st \in Whole,
                               k \in {"cpu_stats", "precpu_stats"}}
        \cup {[st EXCEPT !.cpu_stats = Without(@, "cpu_usage")] : st \in Whole}
        \cup {[st EXCEPT !.precpu_stats = Without(@, "cpu_usage")] :
                st \in Whole}
        \cup {Snapshot(total, 0, system, 0, 0, 0) :
                total \in CounterValues, system \in CounterValues}

\* A snapshot whose utilization is rounded away from the exact quotient 28:
\* (7 / 25) * 1 * 100.0 is 28.000000000000004
RoundedStats == {Snapshot(7, 0, 25, 0, 1, NoKey)}

\* Snapshots read by the monitored environments: 60 %, 92 %
SampleStats ==
    {Snapshot(60, 0, 100, 0, 1, NoKey),
     Snapshot(92, 0, 200, 100, NoKey, NoKey)}

VARIABLES
    containers,         \* runtime: sequence of containers, oldest first
    networks,           \* runtime: names of the networks it holds
    network_traefik,    \* runtime: names of the containers connected to the
                        \* network traefik_default
    config,             \* the parsed manifest
    dpc,                \* deploy_environment: position
    env_name,           \* deploy_environment: generated environment id
    d_k,                \* deploy_environment: index of the service in the loop
    d_err,              \* deploy_environment: the exception caught at line 150
    d_result,           \* deploy_environment: what the caller receives
    deployed_services,  \* deploy_environment: keys of the returned mapping
    issued,             \* environment ids generated by earlier invocations
    tpc,                \* destroy_environment: position
    t_env,              \* destroy_environment: env_name argument
    t_caller,           \* destroy_environment: "cli" or "deploy" (rollback)
    t_todo,             \* destroy_environment: listed containers not yet handled
    t_nets,             \* destroy_environment: listed networks not yet handled
    t_result,           \* destroy_environment: "ok" or the exception raised
    t_log,              \* removal calls issued: <<kind, resource, outcome>>
    t_lists,            \* answers of the list calls issued, in call order
    t_pre,              \* labelled resources the runtime held at the query
    mpc,                \* monitor_environment: position
    m_env,              \* monitor_environment: env_name argument
    failure_counts,     \* monitor_environment: failure_counts
    m_i,                \* monitor_environment: index in services_to_monitor
    cpu_percent,        \* monitor_environment: cpu_percent of this evaluation
    stats,              \* runtime: the snapshot container.stats returns
    m_rule,             \* monitor_environment: index in opt_rules
    replica_id,         \* _scale_service_up: replica_id of the replica
                        \* created and not yet connected (0: none)
    attrs_networks,     \* monitor_environment: keys of container.attrs
                        \* ['NetworkSettings']['Networks'], as last loaded
    verdict,            \* this cycle's outcome of lookup + probe, per service
    restarts,           \* this cycle's restart attempts, per service
    scaled,             \* this cycle's _scale_service_up calls that have
                        \* returned, per service
    evald,              \* this cycle: service's loop body has finished
    streak,             \* consecutive Unhealthy verdicts counted from counter 0
    probe,              \* _perform_health_check: its arguments and what the
                        \* container and the network answer
    is_healthy,         \* _perform_health_check: what the caller receives
    manifest,           \* agente.py deploy: the document of the YML file
    cli                 \* agente.py deploy: position, then the exit status

rvars == <<containers, networks, network_traefik>>
dvars == <<dpc, env_name, d_k, d_err, d_result, deployed_services, issued>>
tvars == <<tpc, t_env, t_caller, t_todo, t_nets, t_result, t_log, t_lists,
           t_pre>>
mvars == <<mpc, m_env, failure_counts, m_i, cpu_percent, stats, m_rule,
           replica_id, attrs_networks, verdict, restarts, scaled, evald, streak>>
pvars == <<probe, is_healthy>>
cvars == <<manifest, cli>>
vars == <<containers, networks, network_traefik, config, dpc, env_name, d_k, d_err, d_result,
          deployed_services, issued, tpc, t_env, t_caller, t_todo, t_nets, t_result,
          t_log, t_lists, t_pre, mpc, m_env, failure_counts, m_i, cpu_percent, stats, m_rule,
          replica_id,
          attrs_networks, verdict, restarts, scaled, evald, streak, probe,
          is_healthy, manifest, cli>>

\* ----------------------------------------------------------------- runtime
Range(s) == {s[i] : i \in 1..Len(s)}

Reverse(s) == [i \in 1..Len(s) |-> s[Len(s) + 1 - i]]

\* line 15. Label keys are tuples; a key that embeds a container name holds
\* the name as its second component.
ENV_LABEL == <<"autotest.env.name">>

\* f"{env_name}-{service_name}" (r = 0) or
\* f"{env_name}-{service_name}-replica-{replica_id}" (r = replica_id)
ContainerName(e, s, r) == <<e, s, r>>

\* line 47: f"{env_name}.{HOST_IP}.nip.io"
PublicUrl(e) == <<e, "34.197.210.107", "nip.io">>

RouterRuleKey(cname) == <<"traefik.http.routers", cname, "rule">>

ServerPortKey(cname) ==
    <<"traefik.http.services", cname, "loadbalancer.server.port">>

\* The labels the ingress reads: those whose key begins with "traefik."
RoutingLabels(labels) ==
    {<<k, labels[k]>> :
        k \in {x \in DOMAIN labels :
                 x[1] \in {"traefik.enable", "traefik.docker.network",
                           "traefik.http.routers", "traefik.http.services"}}}

\* lines 49-52 and 92-107: service_labels of the container of a service
ServiceLabels(e, s) ==
    LET labels == (ENV_LABEL :> <<e>>) @@ (<<"traefik.enable">> :> <<"true">>)
        cname == ContainerName(e, s, 0)
    IN IF s = "web"
       THEN labels
            @@ (RouterRuleKey(cname) :> <<"Host", PublicUrl(e)>>)
            @@ (ServerPortKey(cname) :> <<"5000">>)
            @@ (<<"traefik.docker.network">> :> <<"traefik_default">>)
       ELSE labels

\* The variant that names the router and the service after the replica.
ReplicaLabels_OwnName(e, s, id) ==
    LET labels == (ENV_LABEL :> <<e>>) @@ (<<"autotest.type">> :> <<"replica">>)
        cname == ContainerName(e, s, id)
    IN IF s = "web"
       THEN labels
            @@ (<<"traefik.enable">> :> <<"true">>)
            @@ (<<"traefik.docker.network">> :> <<"traefik_default">>)
            @@ (RouterRuleKey(cname) :> <<"Host", PublicUrl(e)>>)
            @@ (ServerPortKey(cname) :> <<"5000">>)
       ELSE labels

\* lines 447-463: labels of a replica in _scale_service_up
ReplicaLabels(e, s, id) ==
    LET labels == (ENV_LABEL :> <<e>>) @@ (<<"autotest.type">> :> <<"replica">>)
        original_container_name == ContainerName(e, s, 0)
    IN IF s = "web"
       THEN labels
            @@ (<<"traefik.enable">> :> <<"true">>)
            @@ (<<"traefik.docker.network">> :> <<"traefik_default">>)
            @@ (RouterRuleKey(original_container_name)
                    :> <<"Host", PublicUrl(e)>>)
            @@ (ServerPortKey(original_container_name) :> <<"5000">>)
       ELSE labels

\* A container as client.containers.run leaves it in the runtime. env, svc
\* and rep are the components of its name (rep is 0 for the primary, the
\* replica id otherwise); network is the network= argument (the network of
\* environment e is named after e), ports the host port bindings.
\* lines 119-127: the primary container; port_bindings is the empty mapping.
\* lines 466-473: a replica; no ports argument is passed.
Container(e, s, r) ==
    [env |-> e, svc |-> s, rep |-> r,
     labels |-> IF r = 0 THEN ServiceLabels(e, s) ELSE ReplicaLabels(e, s, r),
     network |-> e,
     ports |-> {}]

\* A replica as line 466 creates it: network is the network_name argument
Replica(e, s, id, network_name) ==
    [Container(e, s, id) EXCEPT !.network = network_name]

\* Network names are numbers: f"{env_name}-net" (line 58) is the id of the
\* environment, "traefik_default" (lines 99, 132, 454, 478) the number after
\* the last id. The order of the numbers is the order of the names:
\* "autotest-env-..." sorts before "traefik_default".
TRAEFIK_NETWORK == NumEnvIds + 1

\* Labels of a network: those of line 59 for the network of an environment,
\* none for the ingress network, which the agent does not create
NetworkLabels(n) ==
    IF n \in EnvIds
    THEN (ENV_LABEL :> <<n>>) @@ (<<"traefik.enable">> :> <<"true">>)
    ELSE <<>>

Network(n) == [name |-> n, labels |-> NetworkLabels(n)]

\* The variant that matches the label key whatever its value.
HasEnvLabel_AnyEnv(c, e) == ENV_LABEL \in DOMAIN c.labels

\* A container or network carries label ENV_LABEL=e
HasEnvLabel(c, e) == ENV_LABEL \in DOMAIN c.labels /\ c.labels[ENV_LABEL] = <<e>>

\* The container of the ingress proxy: not created by the agent, no labels,
\* on traefik_default
IngressProxy ==
    [env |-> 0, svc |-> "traefik", rep |-> 0, labels |-> <<>>,
     network |-> TRAEFIK_NETWORK, ports |-> {}]

\* client.containers.list(all=True, filters={"label": ENV_LABEL=e}): newest first
ListContainers(conts, e) ==
    Reverse(SelectSeq(conts, LAMBDA c : HasEnvLabel(c, e)))

\* client.networks.list(filters={"label": ENV_LABEL=e}); at most one
\* network carries the label of e
ListNetworks(nets, e) ==
    LET hits == {n \in nets : HasEnvLabel(Network(n), e)}
    IN IF hits = {} THEN <<>> ELSE <<CHOOSE n \in hits : TRUE>>

RemoveContainer(conts, c) == SelectSeq(conts, LAMBDA x : x # c)

LabelledContainers(e) == {c \in Range(containers) : HasEnvLabel(c, e)}

LabelledNetworks(e) == {n \in networks : HasEnvLabel(Network(n), e)}

RECURSIVE NamesInOrder(_)
\* The names of S in ascending order
NamesInOrder(S) ==
    IF S = {} THEN <<>>
    ELSE LET first == CHOOSE x \in S : \A y \in S : x <= y
         IN <<first>> \o NamesInOrder(S \ {first})

\* Keys of attrs['NetworkSettings']['Networks'] of container c, in the order
\* of the runtime's answer: the mapping is listed by network name. The same
\* order results from listing by time of connection (the network= argument
\* of run first, traefik_default after it).
InspectNetworks(c) ==
    NamesInOrder({c.network}
        \cup (IF ContainerName(c.env, c.svc, c.rep) \in network_traefik
              THEN {TRAEFIK_NETWORK} ELSE {}))

\* The variant that takes the last network of the container.
NetName_Last(names) == names[Len(names)]

\* line 378: list(container.attrs['NetworkSettings']['Networks'].keys())[0]
NetName(names) == names[1]

\* Outcomes of lines 130-139 and 477-483: networks.get("traefik_default")
\* and connect; every exception is printed. TRUE: the container is connected.
ConnectOutcomes(s) ==
    IF s = "web" /\ TRAEFIK_NETWORK \in networks THEN {TRUE, FALSE} ELSE {FALSE}

\* The runtime's record of the members of traefik_default after a connect
Connected(members, c, ok) ==
    IF ok THEN members \cup {ContainerName(c.env, c.svc, c.rep)} ELSE members

\* ... and after the removal of a container
Disconnected(members, c) == members \ {ContainerName(c.env, c.svc, c.rep)}

\* client.containers.get(name) finds the container; a name is in use
Exists(c) ==
    \E x \in Range(containers) :
        ContainerName(x.env, x.svc, x.rep) = ContainerName(c.env, c.svc, c.rep)

\* ------------------------------------------------------ destroy_environment
\* Outcomes of docker.from_env() followed by client.ping(): the runtime
\* answers, or the exception of either call is raised again as
\* ConnectionError
ClientOutcomes == {"ok", "ConnectionError"}

\* Outcomes of container.remove(force=True, v=True) and network.remove():
\* removed, NotFound (already gone), APIError.
RemovalOutcomes == {"ok", "gone", "APIError"}
NominalRemoval == {"ok"}

\* Answers of containers.list and networks.list: the list, NotFound (a listed
\* resource vanished while the listing was built) or another APIError.
ListOutcomes == {"ok", "NotFound", "APIError"}
NominalList == {"ok"}

\* lines 181-199: an exception of a list call inside the try of line 181
\* leaves destroy_environment; NotFound leaves it as EnvironmentNotFound
ListFailure(o) == IF o = "NotFound" THEN "EnvironmentNotFound" ELSE o

\* lines 183-188: neither containers nor networks carry the label
EnvAbsent(listedC, listedN) == listedC = <<>> /\ listedN = <<>>

\* Entry of destroy_environment(e, client) for the given caller.
DestroyCall(e, caller) ==
    /\ tpc' = "list"
    /\ t_env' = e
    /\ t_caller' = caller
    /\ t_todo' = <<>>
    /\ t_nets' = <<>>
    /\ t_result' = "none"
    /\ t_log' = <<>>
    /\ t_lists' = <<>>
    /\ t_pre' = [c |-> {}, n |-> {}]

\* destroy_environment is left with exception e (e = "ok": it returns)
DestroyEnds(e) ==
    /\ tpc' = "done"
    /\ t_result' = e

\* lines 170-175: called without a client, destroy_environment connects to
\* the runtime and raises ConnectionError when that fails, before any query
DestroyClientFails ==
    /\ tpc = "list"
    /\ t_caller = "cli"
    /\ DestroyEnds("ConnectionError")
    /\ UNCHANGED <<t_env, t_caller, t_todo, t_nets, t_log, t_lists, t_pre>>
    /\ UNCHANGED <<rvars, config, dvars, mvars, pvars, cvars>>

\* lines 181-190 and 198-199: the label queries and the EnvironmentNotFound
\* decision. networks.list of line 185 is called only when no container is
\* listed.
DestroyList(outs) ==
    /\ tpc = "list"
    /\ \E oc \in outs :
         LET cs == ListContainers(containers, t_env)
         IN IF oc # "ok"
            THEN /\ DestroyEnds(ListFailure(oc))
                 /\ t_todo' = t_todo
                 /\ t_lists' = <<oc>>
            ELSE IF cs # <<>>
            THEN /\ tpc' = "rmC"
                 /\ t_result' = t_result
                 /\ t_todo' = cs
                 /\ t_lists' = <<oc>>
            ELSE \E on \in outs :
                   LET ns == ListNetworks(networks, t_env)
                   IN /\ t_lists' = <<oc, on>>
                      /\ t_todo' = cs
                      /\ IF on # "ok"
                         THEN DestroyEnds(ListFailure(on))
                         ELSE IF EnvAbsent(cs, ns)
                         THEN DestroyEnds("EnvironmentNotFound")
                         ELSE tpc' = "rmC" /\ t_result' = t_result
    /\ t_pre' = [c |-> LabelledContainers(t_env),
                 n |-> LabelledNetworks(t_env)]
    /\ UNCHANGED <<t_env, t_caller, t_nets, t_log>>
    /\ UNCHANGED <<rvars, config, dvars, mvars, pvars, cvars>>

\* The variant whose container loop stops at a container already gone.
ContainerRemovalRaises_OnGone(o) == o \in {"APIError", "gone"}

\* The variant whose container loop swallows every exception.
ContainerRemovalRaises_Never(o) == FALSE

\* lines 192-196: only NotFound is caught around container.remove
ContainerRemovalRaises(o) == o = "APIError"

\* lines 191-196: one iteration of the container loop; an APIError of
\* container.remove leaves destroy_environment ("RemoveError")
DestroyRemoveContainer(outs) ==
    /\ tpc = "rmC"
    /\ t_todo # <<>>
    /\ LET c == Head(t_todo)
       IN \E o \in (IF Exists(c) THEN outs ELSE {"gone"}) :
            /\ t_log' = Append(t_log, <<"container", c, o>>)
            /\ containers' = IF o = "APIError" THEN containers
                             ELSE RemoveContainer(containers, c)
            /\ network_traefik' = IF o = "APIError" THEN network_traefik
                                  ELSE Disconnected(network_traefik, c)
            /\ IF ContainerRemovalRaises(o)
               THEN /\ tpc' = "done"
                    /\ t_result' = "RemoveError"
                    /\ t_todo' = t_todo
               ELSE /\ tpc' = tpc
                    /\ t_result' = t_result
                    /\ t_todo' = Tail(t_todo)
    /\ UNCHANGED <<networks, t_env, t_caller, t_nets, t_lists, t_pre>>
    /\ UNCHANGED <<config, dvars, mvars, pvars, cvars>>

\* lines 202-204 and 211-212: the label query for networks after the
\* container loop; an exception of networks.list is an APIError (NotFound is
\* one), which line 211 catches and line 212 prints: destroy_environment
\* returns with no removal of a network issued.
DestroyListNetworks(outs) ==
    /\ tpc = "rmC"
    /\ t_todo = <<>>
    /\ \E o \in outs :
         LET ns == IF o = "ok" THEN ListNetworks(networks, t_env) ELSE <<>>
         IN /\ t_lists' = Append(t_lists, o)
            /\ t_nets' = ns
            /\ IF ns = <<>>
               THEN DestroyEnds("ok")
               ELSE tpc' = "rmN" /\ t_result' = t_result
    /\ UNCHANGED <<t_env, t_caller, t_todo, t_log, t_pre>>
    /\ UNCHANGED <<rvars, config, dvars, mvars, pvars, cvars>>

\* network.remove() as the runtime answers it: NotFound when the network is
\* already gone, APIError while containers are still attached to it.
NetworkRemovalOutcomes(n, outs) ==
    IF n \notin networks THEN {"gone"}
    ELSE IF LabelledContainers(n) # {} THEN {"APIError"}
    ELSE outs

\* lines 205-212: one iteration of the network loop. The runtime refuses to
\* remove a network that still has containers attached (APIError); an
\* APIError ends the loop and is only printed.
DestroyRemoveNetwork(outs) ==
    /\ tpc = "rmN"
    /\ t_nets # <<>>
    /\ LET n == Head(t_nets)
       IN \E o \in NetworkRemovalOutcomes(n, outs) :
            /\ t_log' = Append(t_log, <<"network", n, o>>)
            /\ networks' = IF o = "APIError" THEN networks ELSE networks \ {n}
            /\ t_nets' = IF o = "APIError" THEN t_nets ELSE Tail(t_nets)
            /\ IF o = "APIError" \/ Len(t_nets) = 1
               THEN tpc' = "done" /\ t_result' = "ok"
               ELSE tpc' = tpc /\ t_result' = t_result
    /\ UNCHANGED <<containers, network_traefik, t_env, t_caller, t_todo,
                   t_lists, t_pre>>
    /\ UNCHANGED <<config, dvars, mvars, pvars, cvars>>

\* ------------------------------------------------------- deploy_environment
\* The CLI runs one command at a time.
Idle == dpc \in {"idle", "done"} /\ tpc \in {"idle", "done"}

\* line 43: uuid.uuid4().hex[:8] is a random draw among finitely many values;
\* nothing compares it with the ids in use.
GeneratedEnvNames == EnvIds

\* No resource of the runtime carries id e
Fresh(e) == LabelledContainers(e) = {} /\ LabelledNetworks(e) = {}

\* lines 67-86: outcomes of resolving the image of a service
ImageOutcomes(src) ==
    CASE src = "build" -> {"ok", "FileNotFoundError", "BuildError"}
      [] src = "image" -> {"ok", "ImageNotFound", "PullError"}
      [] OTHER -> {"ValueError"}

\* lines 112-113: a service other than web that has 'ports' reads
\* service_config['ports'][0].split(':'); an empty list raises IndexError
\* and a first entry that is not a text AttributeError, before
\* containers.run is called
PortsRaises(s, service_config) ==
    /\ s # "web"
    /\ HasKey(service_config, "ports")
    /\ \/ service_config.ports = <<>>
       \/ service_config.ports[1].type # "str"

\* The exception of line 113
PortsError(service_config) ==
    IF service_config.ports = <<>> THEN "IndexError" ELSE "AttributeError"

\* lines 119-142: containers.run creates then starts; the connect of web to
\* traefik_default and the reload of line 142 follow.
\* "RunError": nothing was created. "StartError": the container was created
\* but start failed (no connect was tried) or reload failed (after the
\* connect, whatever its outcome).
\* A container name already in use is refused and nothing is created.
RunOutcomes(c) ==
    IF Exists(c) THEN {"RunError"} ELSE {"ok", "RunError", "StartError"}

\* lines 150-154: the except block calls destroy_environment(env_name, client)
DeployFail(err) ==
    /\ d_err' = err
    /\ dpc' = "rollback"
    /\ DestroyCall(env_name, "deploy")

\* lines 35-54: the connection to the runtime (ConnectionError when it
\* fails: no id is generated and no rollback runs), then the id and the
\* labels
DeployStart(outs) ==
    /\ Idle
    /\ \E o \in outs :
         IF o = "ok"
         THEN /\ \E e \in GeneratedEnvNames :
                   /\ env_name' = e
                   /\ issued' = issued \cup {e}
              /\ dpc' = "network"
              /\ d_result' = "none"
         ELSE /\ env_name' = 0
              /\ issued' = issued
              /\ dpc' = "done"
              /\ d_result' = o
    /\ d_k' = 1
    /\ d_err' = "none"
    /\ deployed_services' = {}
    /\ tpc' = "idle"
    /\ UNCHANGED <<t_env, t_caller, t_todo, t_nets, t_result, t_log, t_lists,
                   t_pre>>
    /\ UNCHANGED <<rvars, config, mvars, pvars, cvars>>

\* Outcomes of client.networks.create(name, labels): the runtime answers a
\* name already in use with a conflict.
NetworkCreateOutcomes(e) ==
    IF e \in networks THEN {"NetworkCreateError"}
    ELSE {"ok", "NetworkCreateError"}

\* lines 58-59
DeployCreateNetwork ==
    /\ dpc = "network"
    /\ \E o \in NetworkCreateOutcomes(env_name) :
         IF o = "ok"
         THEN /\ networks' = networks \cup {env_name}
              /\ dpc' = "image"
              /\ UNCHANGED <<d_err, tvars>>
         ELSE /\ networks' = networks
              /\ DeployFail(o)
    /\ UNCHANGED <<containers, network_traefik, config, env_name, d_k, d_result,
                   deployed_services, issued, mvars, pvars, cvars>>

\* lines 62-86
DeployImage ==
    /\ dpc = "image"
    /\ \E o \in ImageOutcomes(config[Services[d_k]].src) :
         IF o = "ok"
         THEN dpc' = "run" /\ UNCHANGED <<d_err, tvars>>
         ELSE DeployFail(o)
    /\ UNCHANGED <<rvars, config, env_name, d_k, d_result,
                   deployed_services, issued, mvars, pvars, cvars>>

\* The variant that returns after the first service.
AllServicesDeployed_AfterFirst(k) == TRUE

\* lines 62 and 148: the loop over the services is exhausted
AllServicesDeployed(k) == k = Len(Services)

\* lines 88-148
DeployRun ==
    /\ dpc = "run"
    /\ LET s == Services[d_k]
           c == Container(env_name, s, 0)
       IN IF PortsRaises(s, config[s])
          THEN /\ DeployFail(PortsError(config[s]))
               /\ UNCHANGED <<containers, network_traefik, deployed_services,
                              d_result, d_k>>
          ELSE \E o \in RunOutcomes(c) :
            /\ containers' = IF o = "RunError" THEN containers
                             ELSE Append(containers, c)
            /\ \E ok \in (IF o = "RunError" THEN {FALSE}
                          ELSE ConnectOutcomes(s)) :
                 network_traefik' = Connected(network_traefik, c, ok)
            /\ IF o = "ok"
               THEN /\ deployed_services' = deployed_services \cup {s}
                    /\ UNCHANGED <<d_err, tvars>>
                    /\ IF AllServicesDeployed(d_k)
                       THEN dpc' = "done" /\ d_result' = "ok" /\ d_k' = d_k
                       ELSE dpc' = "image" /\ d_result' = d_result
                            /\ d_k' = d_k + 1
               ELSE /\ DeployFail(o)
                    /\ UNCHANGED <<deployed_services, d_result, d_k>>
    /\ UNCHANGED <<networks, config, env_name, issued, mvars, pvars, cvars>>

\* line 155: the bare raise runs once destroy_environment has returned; an
\* exception raised by destroy_environment leaves the except block instead.
DeployRaise ==
    /\ dpc = "rollback"
    /\ tpc = "done"
    /\ dpc' = "done"
    /\ d_result' = IF t_result = "ok" THEN d_err ELSE t_result
    /\ UNCHANGED <<env_name, d_k, d_err, deployed_services, issued>>
    /\ UNCHANGED <<rvars, config, tvars, mvars, pvars, cvars>>

\* agente.py teardown: destroy_environment(env_name) for any name given
TeardownStart ==
    /\ Idle
    /\ \E e \in EnvIds : DestroyCall(e, "cli")
    /\ dpc' = "idle"
    /\ UNCHANGED <<env_name, d_k, d_err, d_result, deployed_services, issued>>
    /\ UNCHANGED <<rvars, config, mvars, pvars, cvars>>

\* ------------------------------------------------------ monitor_environment
\* lines 320-323: services_to_monitor
Monitored == SelectSeq(Services, LAMBDA s : config[s].hc)

\* The variant that restarts only once the counter exceeds retries.
ThresholdReached_Exceeds(n, r) == n > r

\* line 395
ThresholdReached(n, r) == n >= r

\* The variant that fires when the threshold is reached.
RuleFires_AtThreshold(rule, cpu) ==
    /\ rule.metric = "cpu_usage"
    /\ rule.action = "scale_up"
    /\ \/ F64GreaterThanInt(cpu, rule.threshold)
       \/ F64EqualsInt(cpu, rule.threshold)

\* lines 374-375
RuleFires(rule, cpu) ==
    /\ rule.metric = "cpu_usage"
    /\ rule.action = "scale_up"
    /\ F64GreaterThanInt(cpu, rule.threshold)

\* Positions of monitor_environment while the loop of line 338 runs; the
\* grace sleep of line 334 precedes the try of line 337
InTry == {"sleep", "check", "reload", "request", "stats", "rules", "connect",
          "heal"}

\* lines 309-334: the connection (ConnectionError when the runtime does not
\* answer), failure_counts and services_to_monitor, then the grace sleep
MonStart(faults) ==
    /\ mpc = "start"
    /\ \E o \in {"ok"} \cup (IF faults THEN {"ConnectionError"} ELSE {}) :
         IF o = "ok"
         THEN /\ failure_counts' = [s \in SvcSet |-> 0]
              /\ mpc' = IF Monitored = <<>> THEN "returned" ELSE "grace"
         ELSE /\ failure_counts' = failure_counts
              /\ mpc' = "crashed"
    /\ UNCHANGED <<m_env, replica_id, attrs_networks, m_i, cpu_percent, stats, m_rule, verdict, restarts,
                   scaled, evald, streak>>
    /\ UNCHANGED <<rvars, config, dvars, tvars, pvars, cvars>>

\* lines 334-340: the grace sleep ends; the loop is entered and sleeps
MonGraceEnds ==
    /\ mpc = "grace"
    /\ mpc' = "sleep"
    /\ UNCHANGED <<m_env, replica_id, attrs_networks, failure_counts, m_i, cpu_percent, stats, m_rule,
                   verdict, restarts, scaled, evald, streak>>
    /\ UNCHANGED <<rvars, config, dvars, tvars, pvars, cvars>>

\* lines 338-344: the sleep ends and a cycle begins with the first service
MonCycleBegin ==
    /\ mpc = "sleep"
    /\ mpc' = "check"
    /\ m_i' = 1
    /\ verdict' = [s \in SvcSet |-> "none"]
    /\ restarts' = [s \in SvcSet |-> 0]
    /\ scaled' = [s \in SvcSet |-> 0]
    /\ evald' = [s \in SvcSet |-> FALSE]
    /\ UNCHANGED <<m_env, replica_id, attrs_networks, failure_counts, cpu_percent, stats, m_rule, streak>>
    /\ UNCHANGED <<rvars, config, dvars, tvars, pvars, cvars>>

\* Outcomes of client.containers.get (line 351): the container, NotFound
\* ("missing"), or another exception ("error")
GetOutcomes(c, faults) ==
    (IF Exists(c) THEN {"ok"} ELSE {"missing"})
        \cup (IF faults THEN {"error"} ELSE {})

\* Outcomes of lines 224-250 of _perform_health_check: container.reload()
\* raises when the container is gone; False is returned on an exception, on
\* a container not running and on no address ("unhealthy")
ReloadOutcomes(c) ==
    IF Exists(c) THEN {"ok", "unhealthy"} ELSE {"unhealthy"}

\* Outcomes of lines 253-296: the request is answered 2xx only by a
\* container that exists; hc_rule['type'] of line 253 may raise ("error")
RequestOutcomes(c, faults) ==
    (IF Exists(c) THEN {"healthy", "unhealthy"} ELSE {"unhealthy"})
        \cup (IF faults THEN {"error"} ELSE {})

\* The variant that runs the autoscaler whatever the verdict.
AutoscalerRuns_AnyVerdict(o, service_config) == service_config.opt

\* lines 356 and 363: the autoscaling step is entered
AutoscalerRuns(o, service_config) == o = "healthy" /\ service_config.opt

\* The variant whose NotFound handler leaves the counter alone.
FailureIncrement_IgnoreMissing(o) == IF o = "missing" THEN 0 ELSE 1

\* lines 383, 388, 392: what an outcome other than Healthy adds to the counter
FailureIncrement(o) == 1

\* The variant that clears the counter of every service.
ResetCounter_All(counts, s) == [x \in DOMAIN counts |-> 0]

\* line 360: failure_counts[service_name] = 0
ResetCounter(counts, s) == [counts EXCEPT ![s] = 0]

\* lines 356-363 and 381-392: the counter update for the outcome o of lookup
\* and probe of service s
CounterUpdate(s, o) ==
    /\ verdict' = [verdict EXCEPT ![s] = o]
    /\ IF o = "healthy"
       THEN failure_counts' = ResetCounter(failure_counts, s)
       ELSE /\ failure_counts[s] < MaxFail
            /\ failure_counts' =
                  [failure_counts EXCEPT ![s] = @ + FailureIncrement(o)]
    /\ mpc' = IF AutoscalerRuns(o, config[s]) THEN "stats" ELSE "heal"
    /\ streak' = [streak EXCEPT ![s] =
            IF o # "unhealthy" THEN 0
            ELSE IF failure_counts[s] = 0 THEN 1
            ELSE IF @ > 0 THEN @ + 1
            ELSE 0]

\* lines 349-351 and 386-392: the lookup of the primary container, which
\* loads its attrs
MonCheck(faults) ==
    /\ mpc = "check"
    /\ LET s == Monitored[m_i]
           c == Container(m_env, s, 0)
       IN \E o \in GetOutcomes(c, faults) :
            IF o = "ok"
            THEN /\ mpc' = "reload"
                 /\ attrs_networks' = InspectNetworks(c)
                 /\ UNCHANGED <<verdict, failure_counts, streak>>
            ELSE /\ CounterUpdate(s, o)
                 /\ attrs_networks' = attrs_networks
    /\ UNCHANGED <<m_env, replica_id, m_i, cpu_percent, stats, m_rule, restarts, scaled, evald>>
    /\ UNCHANGED <<rvars, config, dvars, tvars, pvars, cvars>>

\* line 354 with lines 224-250: container.reload() of the probe refreshes
\* attrs; a probe that ends here returns False (lines 381-384)
MonReload ==
    /\ mpc = "reload"
    /\ LET s == Monitored[m_i]
           c == Container(m_env, s, 0)
       IN /\ attrs_networks' = IF Exists(c) THEN InspectNetworks(c)
                               ELSE attrs_networks
          /\ \E o \in ReloadOutcomes(c) :
               IF o = "ok"
               THEN /\ mpc' = "request"
                    /\ UNCHANGED <<verdict, failure_counts, streak>>
               ELSE CounterUpdate(s, o)
    /\ UNCHANGED <<m_env, replica_id, m_i, cpu_percent, stats, m_rule, restarts, scaled, evald>>
    /\ UNCHANGED <<rvars, config, dvars, tvars, pvars, cvars>>

\* line 354 with lines 253-296, then lines 356-360 and 381-392: the request
\* of the probe and the counter update
MonRequest(faults) ==
    /\ mpc = "request"
    /\ LET s == Monitored[m_i]
           c == Container(m_env, s, 0)
       IN \E o \in RequestOutcomes(c, faults) : CounterUpdate(s, o)
    /\ UNCHANGED <<m_env, replica_id, attrs_networks, m_i, cpu_percent, stats, m_rule, restarts, scaled, evald>>
    /\ UNCHANGED <<rvars, config, dvars, tvars, pvars, cvars>>

\* Outcomes of container.stats(stream=False) (line 367)
StatsOutcomes(c, faults) ==
    (IF Exists(c) THEN {"ok"} ELSE {"NotFound"})
        \cup (IF faults THEN {"error"} ELSE {})

\* lines 363-371; an exception lands in the handlers of lines 386-392
MonStats(faults, snapshots) ==
    /\ mpc = "stats"
    /\ LET s == Monitored[m_i]
           c == Container(m_env, s, 0)
       IN \E o \in StatsOutcomes(c, faults) :
            IF o = "ok"
            THEN /\ \E st \in snapshots :
                      /\ stats' = st
                      /\ cpu_percent' = CalculateCpuPercent(st)
                 /\ m_rule' = 1
                 /\ mpc' = IF config[s].rules = <<>> THEN "heal" ELSE "rules"
                 /\ UNCHANGED failure_counts
            ELSE /\ failure_counts' = [failure_counts EXCEPT ![s] = @ + 1]
                 /\ mpc' = "heal"
                 /\ UNCHANGED <<cpu_percent, stats, m_rule>>
    /\ UNCHANGED <<m_env, replica_id, attrs_networks, m_i, verdict, restarts, scaled, evald, streak>>
    /\ UNCHANGED <<rvars, config, dvars, tvars, pvars, cvars>>

\* client.containers.run in _scale_service_up (lines 466-473). "ok": the
\* replica runs. "RunError": nothing was created; a name already taken is
\* refused. "StartError": the container was created and run raised. On a
\* missing network the runtime refuses the creation or creates the container
\* and fails to start it. Every exception is printed (line 487).
ScaleRunOutcomes(r, faults) ==
    IF Exists(r) THEN {"RunError"}
    ELSE IF r.network \notin networks THEN {"RunError", "StartError"}
    ELSE IF faults THEN {"ok", "RunError", "StartError"}
    ELSE {"ok"}

\* lines 373 and 379-380: _scale_service_up has returned; the next rule, or
\* the end of the rules of service s
RuleDone(s) ==
    LET last == m_rule = Len(config[s].rules)
    IN /\ mpc' = IF last THEN "heal" ELSE "rules"
       /\ m_rule' = IF last THEN m_rule ELSE m_rule + 1
       /\ replica_id' = 0

\* lines 373-379 with lines 428-473 of _scale_service_up: one iteration over
\* opt_rules, up to containers.run. The primary container was created with a
\* network= argument, so the mapping read by line 378 has at least one key.
MonRule(faults) ==
    /\ mpc = "rules"
    /\ LET s == Monitored[m_i]
           rule == config[s].rules[m_rule]
       IN IF "metric" \notin DOMAIN rule
          THEN /\ failure_counts' = [failure_counts EXCEPT ![s] = @ + 1]
               /\ mpc' = "heal"
               /\ UNCHANGED <<containers, scaled, m_rule, replica_id>>
          ELSE /\ failure_counts' = failure_counts
               /\ IF RuleFires(rule, cpu_percent)
                  THEN \E id \in ReplicaIds :
                         LET r == Replica(m_env, s, id, NetName(attrs_networks))
                         IN \E o \in ScaleRunOutcomes(r, faults) :
                              /\ containers' = IF o = "RunError" THEN containers
                                               ELSE Append(containers, r)
                              /\ IF o = "ok" /\ s = "web"
                                 THEN /\ mpc' = "connect"
                                      /\ replica_id' = id
                                      /\ UNCHANGED <<scaled, m_rule>>
                                 ELSE /\ scaled' = [scaled EXCEPT ![s] = @ + 1]
                                      /\ RuleDone(s)
                  ELSE /\ UNCHANGED <<containers, scaled>>
                       /\ RuleDone(s)
    /\ UNCHANGED <<m_env, attrs_networks, m_i, cpu_percent, stats, verdict, restarts, evald, streak>>
    /\ UNCHANGED <<networks, network_traefik, config, dvars, tvars, pvars, cvars>>

\* lines 476-485: networks.get("traefik_default") and the connect of the
\* replica of web, which fails when the replica is gone; every exception is
\* printed and _scale_service_up returns
MonConnect ==
    /\ mpc = "connect"
    /\ LET s == Monitored[m_i]
           r == Replica(m_env, s, replica_id, NetName(attrs_networks))
       IN /\ \E ok \in (IF Exists(r) THEN ConnectOutcomes(s) ELSE {FALSE}) :
               network_traefik' = Connected(network_traefik, r, ok)
          /\ scaled' = [scaled EXCEPT ![s] = @ + 1]
          /\ RuleDone(s)
    /\ UNCHANGED <<m_env, attrs_networks, failure_counts, m_i, cpu_percent, stats, verdict, restarts, evald, streak>>
    /\ UNCHANGED <<containers, networks, config, dvars, tvars, pvars, cvars>>

\* Outcomes of client.containers.get + restart (lines 399-400): restarted,
\* NotFound, APIError, or an exception that is neither
RestartOutcomes(c, faults) ==
    (IF Exists(c) THEN {"ok"} ELSE {"NotFound"})
        \cup (IF faults THEN {"APIError", "other"} ELSE {})

\* lines 394-407, then the next service or the end of the cycle
MonHeal(faults) ==
    /\ mpc = "heal"
    /\ LET s == Monitored[m_i]
           c == Container(m_env, s, 0)
           next == IF m_i = Len(Monitored) THEN "sleep" ELSE "check"
       IN /\ evald' = [evald EXCEPT ![s] = TRUE]
          /\ IF ThresholdReached(failure_counts[s], config[s].retries)
             THEN /\ restarts' = [restarts EXCEPT ![s] = @ + 1]
                  /\ \E o \in RestartOutcomes(c, faults) :
                       /\ failure_counts' =
                             IF o = "ok"
                             THEN [failure_counts EXCEPT ![s] = 0]
                             ELSE failure_counts
                       /\ mpc' = IF o = "other" THEN "crashed" ELSE next
                       /\ m_i' = IF o # "other" /\ next = "check"
                                 THEN m_i + 1 ELSE m_i
             ELSE /\ UNCHANGED <<restarts, failure_counts>>
                  /\ mpc' = next
                  /\ m_i' = IF next = "check" THEN m_i + 1 ELSE m_i
    /\ UNCHANGED <<m_env, replica_id, attrs_networks, cpu_percent, stats, m_rule, verdict, scaled, streak>>
    /\ UNCHANGED <<rvars, config, dvars, tvars, pvars, cvars>>

\* KeyboardInterrupt: lines 409-410 catch it anywhere inside the try of
\* line 337; during the grace sleep of line 334 nothing catches it and it
\* leaves monitor_environment
MonInterrupt ==
    /\ mpc \in InTry \cup {"grace"}
    /\ mpc' = IF mpc \in InTry THEN "interrupted" ELSE "crashed"
    /\ UNCHANGED <<m_env, replica_id, attrs_networks, failure_counts, m_i, cpu_percent, stats, m_rule, verdict,
                   restarts, scaled, evald, streak>>
    /\ UNCHANGED <<rvars, config, dvars, tvars, pvars, cvars>>

\* line 350: a primary container of the monitored environment is removed by
\* somebody else while the loop runs
ContainerVanishes ==
    /\ mpc \in InTry \cup {"grace"}
    /\ \E s \in SvcSet :
         /\ Exists(Container(m_env, s, 0))
         /\ containers' = RemoveContainer(containers, Container(m_env, s, 0))
         /\ network_traefik' =
                Disconnected(network_traefik, Container(m_env, s, 0))
    /\ UNCHANGED <<networks, config, dvars, tvars, mvars, pvars, cvars>>

\* destroy_environment(env_name) called for the environment being monitored
TeardownMonitored ==
    /\ tpc = "idle"
    /\ mpc \in InTry \cup {"grace"}
    /\ DestroyCall(m_env, "cli")
    /\ UNCHANGED <<rvars, config, dvars, mvars, pvars, cvars>>

\* A mapping with key name absent, or present with one of the values
OptField(name, values) == {<<>>} \cup {(name :> v) : v \in values}

\* ------------------------------------------- config_parser.py and agente.py
\* The variant that checks only that a type is given.
HcInvalid_TypeOnly(hc_config) == ~HasKey(hc_config, "type")

\* config_parser.py lines 17-30: the health_check raises ValueError
HcInvalid(hc_config) ==
    IF ~HasKey(hc_config, "type") THEN TRUE
    ELSE IF hc_config.type = "http_get" THEN ~HasKey(hc_config, "endpoint")
    ELSE IF hc_config.type = "tcp_connect" THEN ~HasKey(hc_config, "port")
    ELSE TRUE

\* config_parser.py lines 9-30: _validate_and_set_defaults raises ValueError
ValidateRaises(config_data) ==
    /\ HasKey(config_data, "services")
    /\ \E s \in DOMAIN config_data.services :
          /\ HasKey(config_data.services[s], "health_check")
          /\ HcInvalid(config_data.services[s].health_check)

\* agente.py lines 40-50: load_config raised, or the document is empty or
\* has no 'services'
DeployRejects(config_data) ==
    \/ ValidateRaises(config_data)
    \/ DOMAIN config_data = {}
    \/ ~HasKey(config_data, "services")

\* ---------------------------------------------------- _perform_health_check
\* What _perform_health_check returns (value) or the exception that leaves
\* it (raised)
Returns(b) == [raised |-> "none", value |-> b]

Raises(e) == [raised |-> e, value |-> FALSE]

\* lines 232-243: ip_address. nets is the sequence of the entries of
\* attrs['NetworkSettings']['Networks']: whether the name contains
\* "autotest", and the IPAddress ("" when the entry has none).
IsAutotest(n) == n.autotest

HasIp(n) == n.IPAddress # ""

FirstIp(hits) == IF hits = <<>> THEN "" ELSE Head(hits).IPAddress

ResolveIp(nets) ==
    LET ofEnv == FirstIp(SelectSeq(nets, IsAutotest))
    IN IF ofEnv # "" THEN ofEnv
       ELSE FirstIp(SelectSeq(nets, HasIp))

\* line 287: int(hc_rule['port']) of a text, which is the sequence of the
\* code points of its characters (a number is the text of its decimal
\* digits, which int() gives back). int() drops the whitespace around the
\* text, takes one sign, and reads decimal digits of any script that single
\* underscores may separate.
\*
\* The code points of the digit zero of every script (Unicode 14.0, the
\* data of the interpreter the code runs on); the digits one to nine of a
\* script follow its zero.
DecimalZeros ==
    {48, 1632, 1776, 1984, 2406, 2534, 2662, 2790, 2918, 3046, 3174, 3302,
     3430, 3558, 3664, 3792, 3872, 4160, 4240, 6112, 6160, 6470, 6608, 6784,
     6800, 6992, 7088, 7232, 7248, 42528, 43216, 43264, 43472, 43504, 43600,
     44016, 65296, 66720, 68912, 69734, 69872, 69942, 70096, 70384, 70736,
     70864, 71248, 71360, 71472, 71904, 72016, 72784, 73040, 73120, 92768,
     92864, 93008, 120782, 120792, 120802, 120812, 120822, 123200, 123632,
     125264, 130032}

\* The decimal value of the character c, -1 when it is no decimal digit
DigitValue(c) ==
    IF \E z \in DecimalZeros : c \in z..(z + 9)
    THEN c - (CHOOSE z \in DecimalZeros : c \in z..(z + 9))
    ELSE -1

\* The characters int() takes for whitespace: \t \n \v \f \r, the space,
\* U+0085, U+00A0, U+1680, U+2000 to U+200A, U+2028, U+2029, U+202F, U+205F
\* and U+3000
Whitespace ==
    (9..13) \cup {32, 133, 160, 5760} \cup (8192..8202)
        \cup {8232, 8233, 8239, 8287, 12288}

RECURSIVE LStrip(_)
LStrip(chars) ==
    IF chars # <<>> /\ Head(chars) \in Whitespace
    THEN LStrip(Tail(chars))
    ELSE chars

\* The text after the whitespace at both ends and the sign ('+' is 43, '-'
\* is 45) are taken off
Unsigned(chars) ==
    LET text == Reverse(LStrip(Reverse(LStrip(chars))))
    IN IF text # <<>> /\ Head(text) \in {43, 45} THEN Tail(text) ELSE text

\* int(chars) returns (it raises ValueError otherwise); '_' is 95
IntParses(chars) ==
    LET body == Unsigned(chars)
    IN /\ body # <<>>
       /\ \A i \in 1..Len(body) : body[i] = 95 \/ DigitValue(body[i]) >= 0
       /\ body[1] # 95
       /\ body[Len(body)] # 95
       /\ \A i \in 1..(Len(body) - 1) : ~(body[i] = 95 /\ body[i + 1] = 95)

\* The number the digits stand for
RECURSIVE DigitsValue(_)
DigitsValue(body) ==
    IF body = <<>> THEN 0
    ELSE IF body[Len(body)] = 95
         THEN DigitsValue(SubSeq(body, 1, Len(body) - 1))
    ELSE 10 * DigitsValue(SubSeq(body, 1, Len(body) - 1))
            + DigitValue(body[Len(body)])

\* What int(chars) returns when it returns
IntValue(chars) ==
    IF Head(LStrip(chars)) = 45 THEN 0 - DigitsValue(Unsigned(chars))
    ELSE DigitsValue(Unsigned(chars))

\* lines 265-272 raise: 'expose' is present and empty (IndexError at line
\* 266); without 'expose', 'ports' is present and empty (IndexError at line
\* 269) or its first entry is not a text (AttributeError at line 269)
TargetPortRaises(service_config) ==
    IF HasKey(service_config, "expose") THEN service_config.expose = <<>>
    ELSE /\ HasKey(service_config, "ports")
         /\ \/ service_config.ports = <<>>
            \/ service_config.ports[1].type # "str"

\* lines 256-284: the http_get check
HttpGetCheck(service_config, hc_rule, http) ==
    IF ~HasKey(hc_rule, "endpoint") THEN Returns(FALSE)
    ELSE IF TargetPortRaises(service_config) THEN Returns(FALSE)
    ELSE IF http.raised # "none" THEN Returns(FALSE)
    ELSE Returns(200 <= http.status_code /\ http.status_code < 300)

\* The variant whose int() stands outside the try block
TcpConnectCheck_IntUnguarded(hc_rule, tcp) ==
    IF ~HasKey(hc_rule, "port") THEN Returns(FALSE)
    ELSE IF ~IntParses(hc_rule.port) THEN Raises("ValueError")
    ELSE IF IntValue(hc_rule.port) < 0 THEN Returns(FALSE)
    ELSE Returns(tcp = "connected")

\* lines 286-290: the tcp_connect check. A negative port is refused by the
\* address lookup of socket.create_connection before any connection.
TcpConnectCheck(hc_rule, tcp) ==
    IF ~HasKey(hc_rule, "port") THEN Returns(FALSE)
    ELSE IF ~IntParses(hc_rule.port) THEN Returns(FALSE)
    ELSE IF IntValue(hc_rule.port) < 0 THEN Returns(FALSE)
    ELSE Returns(tcp = "connected")

\* lines 214-296
PerformHealthCheck(p) ==
    IF p.container.reload # "ok" THEN Returns(FALSE)
    ELSE IF ~p.container.Running THEN Returns(FALSE)
    ELSE IF ResolveIp(p.container.Networks) = "" THEN Returns(FALSE)
    ELSE IF ~HasKey(p.hc_rule, "type") THEN Raises("KeyError")
    ELSE IF p.hc_rule.type = "http_get"
         THEN HttpGetCheck(p.service_config, p.hc_rule, p.http)
    ELSE IF p.hc_rule.type = "tcp_connect"
         THEN TcpConnectCheck(p.hc_rule, p.tcp)
    ELSE Returns(FALSE)

\* The probe is called with the arguments held in probe
ProbeCall ==
    /\ is_healthy.raised = "pending"
    /\ is_healthy' = PerformHealthCheck(probe)
    /\ UNCHANGED <<probe, rvars, config, dvars, tvars, mvars, cvars>>


Net(autotest, ip) == [autotest |-> autotest, IPAddress |-> ip]

\* container.reload() and the attrs it loads
ProbeContainers ==
    {[reload |-> r, Running |-> b, Networks |-> n] :
        r \in {"ok", "APIError"},
        b \in BOOLEAN,
        n \in {<<>>,
               <<Net(TRUE, "10.0.0.2")>>,
               <<Net(TRUE, "")>>,
               <<Net(FALSE, "172.18.0.3")>>,
               <<Net(FALSE, "")>>,
               <<Net(TRUE, ""), Net(FALSE, "172.18.0.3")>>}}

\* Values of 'port'. Read by int(): 5432, "+5432", " 5432\n", "5_432",
\* "\f5", "5\f", "\v5\r", U+00A0 "5" U+3000, the Arabic-Indic digits five
\* and three, "5" followed by Arabic-Indic three, fullwidth "5432", "-1".
\* Refused by int(): "db", "5__4", "54 32", "0x10", "+", "", "+ 5",
\* U+001C "5", U+200B "5".
PortTexts ==
    {<<53, 52, 51, 50>>,
     <<43, 53, 52, 51, 50>>,
     <<32, 53, 52, 51, 50, 10>>,
     <<53, 95, 52, 51, 50>>,
     <<12, 53>>,
     <<53, 12>>,
     <<11, 53, 13>>,
     <<160, 53, 12288>>,
     <<1637>>,
     <<1635>>,
     <<53, 1635>>,
     <<65301, 65300, 65299, 65298>>,
     <<45, 49>>,
     <<100, 98>>,
     <<53, 95, 95, 52>>,
     <<53, 52, 32, 51, 50>>,
     <<48, 120, 49, 48>>,
     <<43>>,
     <<>>,
     <<43, 32, 53>>,
     <<28, 53>>,
     <<8203, 53>>}

\* config_parser.py line 34
DefaultRetries == 3

\* health_check mappings that _validate_and_set_defaults lets through, with
\* the defaults of config_parser.py lines 34-35: an http_get with an
\* endpoint, a tcp_connect with a port (each of the port texts); the field
\* of the other type may be there too
HcRules ==
    LET defaults == ("retries" :> DefaultRetries) @@ ("interval" :> 15)
    IN {("type" :> "http_get") @@ ("endpoint" :> "/health") @@ c @@ defaults :
            c \in OptField("port", {<<53, 52, 51, 50>>, <<100, 98>>})}
        \cup {("type" :> "tcp_connect") @@ ("port" :> t) @@ b @@ defaults :
                t \in PortTexts, b \in OptField("endpoint", {"/health"})}

ProbeServiceConfigs ==
    {a @@ b :
        a \in OptField("expose", {<<>>, <<"8080">>}),
        b \in OptField("ports", {<<>>, <<Text("80:5000")>>, <<Number("5000")>>})}

\* requests.get(url, timeout=5): a response or an exception
HttpAnswers ==
    {[raised |-> "none", status_code |-> c] :
        c \in {199, 200, 299, 300, 404, 500}}
    \cup {[raised |-> e, status_code |-> 0] :
            e \in {"Timeout", "ConnectionError"}}

\* socket.create_connection((ip_address, port), timeout=5)
TcpAnswers == {"connected", "refused", "timeout"}

ProbeInputs ==
    [container : ProbeContainers, service_config : ProbeServiceConfigs,
     hc_rule : HcRules, http : HttpAnswers, tcp : TcpAnswers]

\* ---------------------------------------------------------------- manifests
ServiceSpec(src, hc, retries, opt, rules) ==
    [src |-> src, hc |-> hc, retries |-> retries, opt |-> opt, rules |-> rules]

\* config_parser.py line 34: hc_config.setdefault('retries', 3)
RetriesOf(hc_config) ==
    IF HasKey(hc_config, "retries") THEN hc_config.retries ELSE DefaultRetries

\* The value None, which yaml.safe_load gives a key written without a
\* value; no image of the manifests is named so.
None == "None"

\* bool(v) of the value of 'image': None and the empty text are false
Truthy(v) == v \notin {None, ""}

\* The image source of a service as lines 67-86 of docker_controller.py
\* read it: 'build' when the key is there, else 'image' when
\* service_config.get('image') is true
SourceOf(service_config) ==
    IF HasKey(service_config, "build") THEN "build"
    ELSE IF HasKey(service_config, "image") /\ Truthy(service_config.image)
         THEN "image"
    ELSE "none"

\* The document load_config returns, as the controller reads it
ParsedConfig(config_data) ==
    [s \in SvcSet |->
        LET service_config == config_data.services[s]
            hc == HasKey(service_config, "health_check")
        IN ServiceSpec(SourceOf(service_config), hc,
                       IF hc THEN RetriesOf(service_config.health_check)
                       ELSE DefaultRetries,
                       FALSE, <<>>)
           @@ (IF HasKey(service_config, "ports")
               THEN "ports" :> service_config.ports ELSE <<>>)]

\* Before a manifest is loaded
NoConfig ==
    [s \in SvcSet |-> ServiceSpec("none", FALSE, DefaultRetries, FALSE, <<>>)]

\* health_check mappings as written in a manifest
RawHcRules ==
    {a @@ b @@ c @@ r :
        a \in OptField("type", {"http_get", "tcp_connect", "grpc"}),
        b \in OptField("endpoint", {"/health"}),
        c \in OptField("port", {<<53, 52, 51, 50>>}),
        r \in OptField("retries", {MaxRetries})}

\* Services as written in a manifest: an image with or without a
\* health_check
RawServices ==
    {("image" :> "img") @@ h : h \in OptField("health_check", RawHcRules)}

\* Documents of a YML file: empty, without 'services', with both services;
\* with a db whose image is not named
RawManifests ==
    {<<>>, ("version" :> "3")}
        \cup {("services" :> f) : f \in [SvcSet -> RawServices]}
        \cup {("services" :>
                  [s \in SvcSet |->
                      IF s = "web" THEN ("image" :> "img") ELSE v]) :
                v \in {("image" :> ""), ("image" :> None)}}

\* agente.py lines 39-50: load_config and the checks of its result
CliLoadConfig ==
    /\ cli \in {"idle", "exit 0", "exit 1"}
    /\ dpc = "idle"
    /\ tpc \in {"idle", "done"}
    /\ IF DeployRejects(manifest)
       THEN cli' = "exit 1" /\ config' = config
       ELSE cli' = "loaded" /\ config' = ParsedConfig(manifest)
    /\ UNCHANGED <<manifest, rvars, dvars, tvars, mvars, pvars>>

\* agente.py line 56: deploy_environment is called
CliDeployEnvironment ==
    /\ cli = "loaded"
    /\ dpc = "idle"
    /\ DeployStart(ClientOutcomes)

\* agente.py lines 58-67: the result is reported and the process ends
CliReport ==
    /\ cli = "loaded"
    /\ dpc = "done"
    /\ cli' = IF d_result = "ok" THEN "exit 0" ELSE "exit 1"
    /\ dpc' = "idle"
    /\ UNCHANGED <<env_name, d_k, d_err, d_result, deployed_services, issued>>
    /\ UNCHANGED <<manifest, rvars, config, tvars, mvars, pvars>>

\* 'ports' of a service as a manifest may give it: absent, empty, one
\* mapping, one number
PortsFields ==
    OptField("ports", {<<>>, <<Text("5432:5432")>>, <<Number("5432")>>})

\* A manifest whose web names its image as a and whose db names it as b and
\* has the 'ports' of p
DeployManifest(a, b, p) ==
    [s \in SvcSet |->
        IF s = "web"
        THEN ServiceSpec(a, FALSE, DefaultRetries, FALSE, <<>>)
        ELSE ServiceSpec(b, FALSE, DefaultRetries, FALSE, <<>>) @@ p]

\* Manifests for deploy: every way of naming (or not naming) the image; two
\* named images and a db with or without 'ports'
DeployManifests ==
    {DeployManifest(a, b, <<>>) :
        a \in {"image", "build", "none"}, b \in {"image", "build", "none"}}
    \cup {DeployManifest("image", "image", p) : p \in PortsFields}

\* Manifests for the scope of teardown: web names an image or nothing, db
\* names an image with or without 'ports'
ScopeManifests ==
    {DeployManifest(a, "image", p) :
        a \in {"image", "none"}, p \in OptField("ports", {<<>>})}

RuleLists ==
    {<<RuleCpu50, RuleCpu80>>, <<RuleMem, RuleCpu80>>, <<RuleNoMetric>>}

\* config_parser.py lines 32-35: 'retries' is defaulted when absent and
\* never compared with a minimum, so a manifest may give 0 (or a negative
\* number, which line 395 treats as it treats 0).
RetriesValues == 0..MaxRetries

\* Manifests for monitoring: web always has a health_check; db may have one
MonitorManifests ==
    {[s \in SvcSet |->
        IF s = "web"
        THEN ServiceSpec("image", TRUE, r, o.opt, o.rules)
        ELSE ServiceSpec("image", dbhc, DefaultRetries, FALSE, <<>>)] :
        r \in 1..MaxRetries,
        o \in {[opt |-> FALSE, rules |-> <<>>]}
                \cup {[opt |-> TRUE, rules |-> rl] : rl \in RuleLists},
        dbhc \in BOOLEAN}

\* Manifests for the restart decision: web is monitored with any retries
\* value a manifest may give, with or without a rule
RetriesManifests ==
    {[s \in SvcSet |->
        IF s = "web"
        THEN ServiceSpec("image", TRUE, r, o.opt, o.rules)
        ELSE ServiceSpec("image", FALSE, DefaultRetries, FALSE, <<>>)] :
        r \in RetriesValues,
        o \in {[opt |-> FALSE, rules |-> <<>>],
               [opt |-> TRUE, rules |-> <<RuleCpu80>>]}}

\* Manifests for the CPU rule: web is monitored and has one rule
CpuManifests ==
    {[s \in SvcSet |->
        IF s = "web"
        THEN ServiceSpec("image", TRUE, 1, TRUE, <<rule>>)
        ELSE ServiceSpec("image", FALSE, DefaultRetries, FALSE, <<>>)] :
        rule \in {RuleCpu0, RuleCpu28, RuleCpu50, RuleCpu80}}

\* Manifests for scaling: both services are monitored; one of them, web or
\* db, has a rule
ScaleManifests ==
    {[s \in SvcSet |->
        ServiceSpec("image", TRUE, DefaultRetries, s = scaling, <<RuleCpu50>>)] :
        scaling \in SvcSet}

\* ------------------------------------------------------------ specifications
InitDeployIdle ==
    /\ dpc = "idle"
    /\ env_name = 0
    /\ d_k = 1
    /\ d_err = "none"
    /\ d_result = "none"
    /\ deployed_services = {}
    /\ issued = {}

InitDestroyIdle ==
    /\ tpc = "idle"
    /\ t_env = 0
    /\ t_caller = "none"
    /\ t_todo = <<>>
    /\ t_nets = <<>>
    /\ t_result = "none"
    /\ t_log = <<>>
    /\ t_lists = <<>>
    /\ t_pre = [c |-> {}, n |-> {}]

InitMonitorVars(pc, e) ==
    /\ mpc = pc
    /\ m_env = e
    /\ failure_counts = [s \in SvcSet |-> 0]
    /\ m_i = 1
    /\ cpu_percent = F64Zero
    /\ stats = <<>>
    /\ m_rule = 1
    /\ replica_id = 0
    /\ attrs_networks = <<>>
    /\ verdict = [s \in SvcSet |-> "none"]
    /\ restarts = [s \in SvcSet |-> 0]
    /\ scaled = [s \in SvcSet |-> 0]
    /\ evald = [s \in SvcSet |-> FALSE]
    /\ streak = [s \in SvcSet |-> 0]

InitProbeIdle ==
    /\ probe = <<>>
    /\ is_healthy = Raises("off")

InitCliIdle ==
    /\ manifest = <<>>
    /\ cli = "off"

\* The runtime after a successful deploy of environment e
DeployedEnvironment(e) ==
    /\ containers = [i \in 1..Len(Services) |-> Container(e, Services[i], 0)]
    /\ networks = {e}
    /\ network_traefik = {}

\* Deploy and teardown commands, one at a time, on an empty runtime
Init ==
    /\ containers = <<>>
    /\ networks = {}
    /\ network_traefik = {}
    /\ config \in DeployManifests
    /\ InitDeployIdle
    /\ InitDestroyIdle
    /\ InitMonitorVars("off", 0)
    /\ InitProbeIdle
    /\ InitCliIdle

Next ==
    \/ DeployStart(ClientOutcomes)
    \/ DeployCreateNetwork
    \/ DeployImage
    \/ DeployRun
    \/ DeployRaise
    \/ TeardownStart
    \/ DestroyClientFails
    \/ DestroyList(ListOutcomes)
    \/ DestroyRemoveContainer(RemovalOutcomes)
    \/ DestroyListNetworks(ListOutcomes)
    \/ DestroyRemoveNetwork(RemovalOutcomes)

Spec == Init /\ [][Next]_vars

\* The monitoring loop on a deployed environment, runtime calls may fail
InitMonitor ==
    /\ DeployedEnvironment(1)
    /\ config \in MonitorManifests
    /\ InitDeployIdle
    /\ InitDestroyIdle
    /\ InitMonitorVars("start", 1)
    /\ InitProbeIdle
    /\ InitCliIdle

NextMonitor ==
    \/ MonStart(TRUE)
    \/ MonGraceEnds
    \/ MonCycleBegin
    \/ MonCheck(TRUE)
    \/ MonReload
    \/ MonRequest(TRUE)
    \/ MonStats(TRUE, SampleStats)
    \/ MonRule(TRUE)
    \/ MonConnect
    \/ MonHeal(TRUE)
    \/ MonInterrupt
    \/ ContainerVanishes

SpecMonitor == InitMonitor /\ [][NextMonitor]_vars

\* The monitoring loop, runtime calls may fail, for every retries value
InitRetries ==
    /\ DeployedEnvironment(1)
    /\ config \in RetriesManifests
    /\ InitDeployIdle
    /\ InitDestroyIdle
    /\ InitMonitorVars("start", 1)
    /\ InitProbeIdle
    /\ InitCliIdle

SpecRetries == InitRetries /\ [][NextMonitor]_vars

\* The monitoring loop interleaved with one teardown of the same environment;
\* every runtime call answers as the runtime state dictates, none fails
\* spuriously.
NextConcurrent ==
    \/ MonStart(FALSE)
    \/ MonGraceEnds
    \/ MonCycleBegin
    \/ MonCheck(FALSE)
    \/ MonReload
    \/ MonRequest(FALSE)
    \/ MonStats(FALSE, SampleStats)
    \/ MonRule(FALSE)
    \/ MonConnect
    \/ MonHeal(FALSE)
    \/ TeardownMonitored
    \/ DestroyList(NominalList)
    \/ DestroyRemoveContainer(NominalRemoval)
    \/ DestroyListNetworks(NominalList)
    \/ DestroyRemoveNetwork(NominalRemoval)

SpecConcurrent == InitMonitor /\ [][NextConcurrent]_vars

\* The monitoring loop on a runtime that answers container.stats with one
\* snapshot of StatsInputs or RoundedStats
InitCpu ==
    /\ DeployedEnvironment(1)
    /\ config \in CpuManifests
    /\ InitDeployIdle
    /\ InitDestroyIdle
    /\ mpc = "start"
    /\ m_env = 1
    /\ failure_counts = [s \in SvcSet |-> 0]
    /\ m_i = 1
    /\ cpu_percent = F64Zero
    /\ stats \in StatsInputs \cup RoundedStats
    /\ m_rule = 1
    /\ replica_id = 0
    /\ attrs_networks = <<>>
    /\ verdict = [s \in SvcSet |-> "none"]
    /\ restarts = [s \in SvcSet |-> 0]
    /\ scaled = [s \in SvcSet |-> 0]
    /\ evald = [s \in SvcSet |-> FALSE]
    /\ streak = [s \in SvcSet |-> 0]
    /\ InitProbeIdle
    /\ InitCliIdle

NextCpu ==
    \/ MonStart(FALSE)
    \/ MonGraceEnds
    \/ MonCycleBegin
    \/ MonCheck(FALSE)
    \/ MonReload
    \/ MonRequest(FALSE)
    \/ MonStats(FALSE, {stats})
    \/ MonRule(FALSE)
    \/ MonConnect
    \/ MonHeal(FALSE)

SpecCpu == InitCpu /\ [][NextCpu]_vars

\* One call of _perform_health_check for every combination of arguments
\* and answers
InitProbe ==
    /\ DeployedEnvironment(1)
    /\ config = DeployManifest("image", "image", <<>>)
    /\ InitDeployIdle
    /\ InitDestroyIdle
    /\ InitMonitorVars("off", 1)
    /\ probe \in ProbeInputs
    /\ is_healthy = Raises("pending")
    /\ InitCliIdle

NextProbe == ProbeCall

SpecProbe == InitProbe /\ [][NextProbe]_vars

\* The deploy command of agente.py run, any number of times, on the
\* manifest of one file; the runtime may be unreachable, and when it is
\* reached it answers the queries and the removals of a rollback
InitCli ==
    /\ containers = <<>>
    /\ networks = {}
    /\ network_traefik = {}
    /\ config = NoConfig
    /\ InitDeployIdle
    /\ InitDestroyIdle
    /\ InitMonitorVars("off", 0)
    /\ probe = <<>>
    /\ is_healthy = Raises("off")
    /\ manifest \in RawManifests
    /\ cli = "idle"

NextCli ==
    \/ CliLoadConfig
    \/ CliDeployEnvironment
    \/ DeployCreateNetwork
    \/ DeployImage
    \/ DeployRun
    \/ DeployRaise
    \/ CliReport
    \/ DestroyList(NominalList)
    \/ DestroyRemoveContainer(NominalRemoval)
    \/ DestroyListNetworks(NominalList)
    \/ DestroyRemoveNetwork(NominalRemoval)

SpecCli == InitCli /\ [][NextCli]_vars

\* Deploy and teardown commands, one at a time, on a runtime that holds the
\* ingress network and the proxy container
InitScope ==
    /\ containers = <<IngressProxy>>
    /\ networks = {TRAEFIK_NETWORK}
    /\ network_traefik = Connected({}, IngressProxy, TRUE)
    /\ config \in ScopeManifests
    /\ InitDeployIdle
    /\ InitDestroyIdle
    /\ InitMonitorVars("off", 0)
    /\ InitProbeIdle
    /\ InitCliIdle

SpecScope == InitScope /\ [][Next]_vars

\* The monitoring loop on an environment deployed on a runtime with or
\* without the ingress network; with it, the connect of line 136 succeeded
\* or failed
InitScale ==
    /\ containers = [i \in 1..Len(Services) |-> Container(1, Services[i], 0)]
    /\ \E traefik \in BOOLEAN :
         /\ networks = {1} \cup (IF traefik THEN {TRAEFIK_NETWORK} ELSE {})
         /\ network_traefik \in
               {Connected({}, Container(1, "web", 0), ok) :
                    ok \in (IF traefik THEN {TRUE, FALSE} ELSE {FALSE})}
    /\ config \in ScaleManifests
    /\ InitDeployIdle
    /\ InitDestroyIdle
    /\ InitMonitorVars("start", 1)
    /\ InitProbeIdle
    /\ InitCliIdle

\* Probe, stats and restart answer as the runtime state dictates; the
\* creation of a replica and its connect may fail
NextScale ==
    \/ MonStart(FALSE)
    \/ MonGraceEnds
    \/ MonCycleBegin
    \/ MonCheck(FALSE)
    \/ MonReload
    \/ MonRequest(FALSE)
    \/ MonStats(FALSE, SampleStats)
    \/ MonRule(TRUE)
    \/ MonConnect
    \/ MonHeal(FALSE)

SpecScale == InitScale /\ [][NextScale]_vars

\* ------------------------------------------------------------------- claims

\* A removal call of the current destroy_environment was answered APIError.
RemovalRefused == \E i \in 1..Len(t_log) : t_log[i][3] = "APIError"

\* A list call of the current destroy_environment was answered with an
\* exception.
ListFailed == \E i \in 1..Len(t_lists) : t_lists[i] # "ok"

\* C1: once deploy_environment has returned with an error raised after the
\* runtime connection succeeded, the runtime holds no container and no
\* network labelled with that attempt's environment id.
DeployAtomicity ==
    (dpc = "done" /\ d_result \notin {"ok", "ConnectionError"}) =>
        /\ LabelledContainers(env_name) = {}
        /\ LabelledNetworks(env_name) = {}

\* C2: when a step of deploy_environment fails, the caller receives that
\* original failure, after the compensating teardown has run.
DeployRaisesOriginal ==
    (dpc = "done" /\ d_err # "none") =>
        /\ d_result = d_err
        /\ t_caller = "deploy" /\ tpc = "done"

\* C3: counted from counter 0, a cycle that is the k-th consecutive one with
\* an Unhealthy verdict issues no restart for k < retries and exactly one
\* restart (lookup of the primary container and restart call) for
\* k = retries.
RestartThreshold ==
    \A s \in SvcSet :
        (evald[s] /\ streak[s] >= 1) =>
            /\ streak[s] < config[s].retries => restarts[s] = 0
            /\ streak[s] = config[s].retries => restarts[s] = 1

\* A service with retries >= 2 whose retries-th consecutive Unhealthy cycle
\* has just ended with its one restart, which the runtime carried out.
RestartThresholdWitness ==
    \E s \in SvcSet :
        /\ evald[s]
        /\ config[s].retries >= 2
        /\ streak[s] = config[s].retries
        /\ restarts[s] = 1
        /\ failure_counts[s] = 0

\* C4: a service for which the controller issued a restart in this cycle
\* ends the cycle with counter 0, whatever the runtime answered.
RestartResetsCounter ==
    \A s \in SvcSet :
        (evald[s] /\ restarts[s] > 0 /\ mpc # "crashed") =>
            failure_counts[s] = 0

\* C5: a service whose probe returned Healthy in this cycle ends the cycle
\* with counter 0, whatever happened in the autoscaling step.
HealthyResetsCounter ==
    \A s \in SvcSet :
        (evald[s] /\ verdict[s] = "healthy") => failure_counts[s] = 0

\* C6 as stated: whenever destroy_environment returns without raising, the
\* runtime holds no container and no network labelled with its argument,
\* for every outcome of the removal calls.
TeardownCompleteness ==
    (tpc = "done" /\ t_result = "ok") =>
        /\ LabelledContainers(t_env) = {}
        /\ LabelledNetworks(t_env) = {}

\* C6 as amended: whenever destroy_environment returns without raising, the
\* runtime holds no container labelled with its argument, and a labelled
\* network only if the removal of that network was answered APIError or the
\* network query that follows the container loop was answered with an
\* exception.
TeardownCompletenessUnlessRefused ==
    (tpc = "done" /\ t_result = "ok") =>
        /\ LabelledContainers(t_env) = {}
        /\ \A n \in LabelledNetworks(t_env) :
             \/ \E i \in 1..Len(t_log) : t_log[i] = <<"network", n, "APIError">>
             \/ \E i \in 1..Len(t_lists) :
                    i = Len(t_lists) /\ t_lists[i] # "ok"

\* A teardown asked from the command line has removed the containers and
\* the network of a deployed environment and returned.
TeardownCompletenessWitness ==
    /\ tpc = "done"
    /\ t_caller = "cli"
    /\ t_result = "ok"
    /\ Cardinality(t_pre.c) = Len(Services)
    /\ t_pre.n # {}
    /\ LabelledContainers(t_env) = {}
    /\ LabelledNetworks(t_env) = {}

\* C7: destroy_environment, connected to the runtime, raises
\* EnvironmentNotFound exactly when the runtime held neither a container nor
\* a network with the label when it was queried, and then issues no removal
\* call; when only networks carried the
\* label it does not raise and issues the removal of each of them, after
\* which the network is gone unless the runtime answered that removal with
\* an API error.
EnvironmentNotFoundExactly ==
    (tpc \in {"rmC", "rmN", "done"} /\ t_result # "ConnectionError") =>
        /\ (t_result = "EnvironmentNotFound") <=>
               (t_pre.c = {} /\ t_pre.n = {})
        /\ t_result = "EnvironmentNotFound" => t_log = <<>>
        /\ (tpc = "done" /\ t_pre.c = {} /\ t_pre.n # {}) =>
               /\ t_result = "ok"
               /\ \A n \in t_pre.n :
                    \E i \in 1..Len(t_log) :
                        /\ t_log[i][1] = "network"
                        /\ t_log[i][2] = n
                        /\ n \in networks => t_log[i][3] = "APIError"

\* C8: no failure of a runtime call inside a cycle makes
\* monitor_environment end; once a cycle has evaluated a service it ends
\* only when interrupted.
MonitorNeverAborts ==
    (\E s \in SvcSet : verdict[s] # "none") => mpc # "crashed"

\* C9: at most one scale-up is issued per service per cycle.
AtMostOneScaleUp == \A s \in SvcSet : scaled[s] <= 1

\* C10: with a monitoring cycle of the same environment interleaved, once
\* destroy_environment has returned without error no container and no
\* network labelled with the environment exists, then or later.
TeardownSafeUnderMonitor ==
    (tpc = "done" /\ t_result = "ok" /\ t_env = m_env) =>
        /\ \A c \in Range(containers) : c.env # m_env
        /\ m_env \notin networks

\* C11: over any sequence of deploy_environment invocations, no invocation
\* generates an environment id that an earlier invocation generated, so no
\* two environments share the value of the environment label.
EnvironmentIdUnique ==
    [][(dpc # "network" /\ dpc' = "network") => env_name' \notin issued]_vars

\* C12: an interrupt ends the loop only between cycles: when the loop has
\* been interrupted, the current cycle has either probed no service yet or
\* finished the evaluation (probe, counter update, restart decision) of
\* every monitored service.
InterruptOnlyBetweenCycles ==
    mpc = "interrupted" =>
        \/ \A s \in Range(Monitored) : verdict[s] = "none"
        \/ \A s \in Range(Monitored) : evald[s]

\* C13: stats are read and rules evaluated only for a service whose verdict
\* of this cycle is Healthy and which has optimization_rules; a service
\* found Unhealthy or missing in this cycle gets no scale-up in it; no
\* replica exists of a service without optimization_rules.
AutoscalerOnlyWhenHealthy ==
    /\ mpc \in {"stats", "rules", "connect"} =>
           /\ verdict[Monitored[m_i]] = "healthy"
           /\ config[Monitored[m_i]].opt
    /\ \A s \in SvcSet :
           verdict[s] \in {"unhealthy", "missing"} => scaled[s] = 0
    /\ \A c \in Range(containers) : c.rep # 0 => config[c.svc].opt

\* A service with rules that was scaled up in an earlier cycle has finished
\* a cycle with an Unhealthy verdict and without a scale-up.
AutoscalerOnlyWhenHealthyWitness ==
    \E s \in SvcSet :
        /\ evald[s]
        /\ verdict[s] = "unhealthy"
        /\ config[s].opt /\ config[s].rules # <<>>
        /\ scaled[s] = 0
        /\ \E c \in Range(containers) : c.svc = s /\ c.rep # 0

\* C16: a lookup of the primary container answered not-found adds one to
\* the service's counter, changes nothing else and goes on to the threshold
\* decision, as an Unhealthy verdict does; in that decision a restart is
\* issued exactly when the counter has reached retries, for both verdicts.
MissingCountsAsUnhealthy ==
    [][\A s \in SvcSet :
         /\ (/\ mpc \in {"check", "reload", "request"}
             /\ mpc' \in {"stats", "heal"}
             /\ s = Monitored[m_i]
             /\ verdict'[s] \in {"missing", "unhealthy"}) =>
                /\ failure_counts'[s] = failure_counts[s] + 1
                /\ mpc' = "heal"
                /\ UNCHANGED <<containers, networks, restarts, scaled>>
         /\ (/\ mpc = "heal" /\ ~evald[s] /\ evald'[s]
             /\ verdict[s] \in {"missing", "unhealthy"}) =>
                /\ restarts'[s] \in {restarts[s], restarts[s] + 1}
                /\ (restarts'[s] = restarts[s] + 1) <=>
                       (failure_counts[s] >= config[s].retries)
      ]_vars

\* A service whose primary container was missing in retries consecutive
\* cycles has ended the last of them with a restart attempt.
MissingCountsAsUnhealthyWitness ==
    \E s \in SvcSet :
        /\ evald[s]
        /\ verdict[s] = "missing"
        /\ config[s].retries >= 2
        /\ failure_counts[s] = config[s].retries
        /\ restarts[s] = 1

\* In this cycle cpu_percent was computed from stats for a Healthy service
StatsRead ==
    \E s \in SvcSet :
        /\ verdict[s] = "healthy"
        /\ config[s].opt
        /\ evald[s]
           \/ (s = Monitored[m_i] /\ mpc \in {"rules", "connect", "heal"})

\* The snapshot has the fields of the earlier sample
HasBaseline(st) ==
    /\ HasKey(st, "precpu_stats")
    /\ HasKey(st.precpu_stats, "cpu_usage")
    /\ HasKey(st.precpu_stats.cpu_usage, "total_usage")
    /\ HasKey(st.precpu_stats, "system_cpu_usage")

\* The snapshot has the fields of the current sample
HasCurrent(st) ==
    /\ HasKey(st, "cpu_stats")
    /\ HasKey(st.cpu_stats, "cpu_usage")
    /\ HasKey(st.cpu_stats.cpu_usage, "total_usage")
    /\ HasKey(st.cpu_stats, "system_cpu_usage")

\* Both deltas are defined
HasDeltas(st) == HasBaseline(st) /\ HasCurrent(st)

\* The absolute value of the integer n
Abs(n) == IF n < 0 THEN 0 - n ELSE n

\* Exact arithmetic for the statement of C14. A natural number is the
\* sequence of its digits in base 2^15, units first, so that numbers of
\* more than 31 bits are added, multiplied and compared without rounding.
Radix == 2 ^ 15

RECURSIVE Digits(_)
Digits(n) == IF n = 0 THEN <<>> ELSE <<n % Radix>> \o Digits(n \div Radix)

\* x + y + carry
RECURSIVE Sum(_, _, _)
Sum(x, y, carry) ==
    IF x = <<>> /\ y = <<>> THEN Digits(carry)
    ELSE LET t == (IF x = <<>> THEN 0 ELSE Head(x))
                    + (IF y = <<>> THEN 0 ELSE Head(y)) + carry
         IN <<t % Radix>> \o Sum(IF x = <<>> THEN x ELSE Tail(x),
                                 IF y = <<>> THEN y ELSE Tail(y),
                                 t \div Radix)

\* x * n + carry for an integer n >= 0
RECURSIVE Product(_, _, _)
Product(x, n, carry) ==
    IF x = <<>> THEN Digits(carry)
    ELSE LET t == Head(x) * n + carry
         IN <<t % Radix>> \o Product(Tail(x), n, t \div Radix)

\* x * 2^k
Doubled(x, k) ==
    [i \in 1..(k \div 15) |-> 0] \o Product(x, 2 ^ (k % 15), 0)

\* digit i of x, 0 beyond its last digit
DigitAt(x, i) == IF i <= Len(x) THEN x[i] ELSE 0

\* x > y
Greater(x, y) ==
    \E i \in 1..Len(x) :
        /\ x[i] > DigitAt(y, i)
        /\ \A j \in (i + 1)..(IF Len(x) > Len(y) THEN Len(x) ELSE Len(y)) :
              DigitAt(x, j) = DigitAt(y, j)

\* The number whose binary digits are bits, leading bit first
RECURSIVE BitsValue(_)
BitsValue(bits) ==
    IF bits = <<>> THEN 0
    ELSE 2 * BitsValue(SubSeq(bits, 1, Len(bits) - 1)) + bits[Len(bits)]

\* The float v is the integer Significand(v) x 2^Scale(v)
Significand(v) ==
    [j \in 1..((Len(v.m) + 14) \div 15) |->
        LET last == Len(v.m) - 15 * (j - 1)
        IN BitsValue(SubSeq(v.m, IF last > 15 THEN last - 14 ELSE 1, last))]

Scale(v) == v.e - (Precision - 1)

\* The float v is the binary64 number nearest to the exact number
\* (n x 2^t) / d, the one with the even significand when two are as near: it
\* has Precision bits of which the first is 1, and twice its distance to the
\* exact number is at most the weight of its last bit (half that weight
\* when v is a power of 2 above the exact number, the weights being halved
\* below v).
Nearest(v, n, t, d) ==
    /\ Len(v.m) = Precision
    /\ v.m[1] = 1
    /\ LET c    == IF Scale(v) < t THEN Scale(v) ELSE t
           val  == Doubled(Product(Significand(v), d, 0), Scale(v) - c)
           num  == Doubled(n, t - c)
           ulp  == Doubled(Digits(d), Scale(v) - c)
           pow2 == \A i \in 2..Precision : v.m[i] = 0
       IN /\ ~Greater(Doubled(val, 1), Sum(Doubled(num, 1), ulp, 0))
          /\ ~Greater(Doubled(num, 1), Sum(Doubled(val, 1), ulp, 0))
          /\ (pow2 /\ Greater(val, num))
                => ~Greater(Doubled(val, 2), Sum(Doubled(num, 2), ulp, 0))
          /\ v.m[Precision] = 1
                => /\ Greater(Sum(Doubled(num, 1), ulp, 0), Doubled(val, 1))
                   /\ Greater(Sum(Doubled(val, 1), ulp, 0), Doubled(num, 1))

\* The float v differs from the exact number n / d by at most n / d x 2^-51,
\* the error three roundings to the nearest can add up to
WithinRounding(v, n, d) ==
    /\ v # F64Zero
    /\ Scale(v) <= 0
    /\ LET val == Doubled(Product(Significand(v), d, 0), Precision - 2)
           num == Doubled(Digits(n), (Precision - 2) - Scale(v))
           tol == Doubled(Digits(n), 0 - Scale(v))
       IN /\ ~Greater(val, Sum(num, tol, 0))
          /\ ~Greater(num, Sum(val, tol, 0))

\* cpu_percent is (a / b) x n x 100.0 for a > 0, b > 0 and n >= 0: the
\* quotient is the float nearest to a / b, the product by n the float
\* nearest to quotient x n, and cpu_percent the float nearest to
\* product x 100; so cpu_percent is within rounding of the exact
\* (a x n x 100) / b. F64Div and F64Mul name the two intermediate values,
\* which the conditions check against the exact numbers.
IsUtilization(a, b, n) ==
    IF n = 0 THEN cpu_percent = F64Zero
    ELSE LET quotient == F64Div(a, b)
             product  == F64Mul(quotient, n)
         IN /\ Nearest(quotient, Digits(a), 0, b)
            /\ Nearest(product, Product(Significand(quotient), n, 0),
                       Scale(quotient), 1)
            /\ Nearest(cpu_percent, Product(Significand(product), 100, 0),
                       Scale(product), 1)
            /\ WithinRounding(cpu_percent, a * n * 100, b)

\* cpu_percent > t for an integer t >= 0, in exact arithmetic
Exceeds(t) ==
    /\ cpu_percent # F64Zero
    /\ IF Scale(cpu_percent) <= 0
       THEN Greater(Significand(cpu_percent),
                    Doubled(Digits(t), 0 - Scale(cpu_percent)))
       ELSE Greater(Doubled(Significand(cpu_percent), Scale(cpu_percent)),
                    Digits(t))

\* A scale-up of this cycle has a cpu rule whose threshold cpu_percent
\* strictly exceeds
ScaledOnlyAboveThreshold ==
    \A s \in SvcSet :
        scaled[s] > 0 =>
            \E i \in DOMAIN config[s].rules :
                /\ config[s].rules[i].threshold >= 0
                /\ Exceeds(config[s].rules[i].threshold)

\* C14 as stated: cpu_percent is 0 when cpuDelta = 0, systemDelta = 0 or the
\* baseline is missing, and then nothing is scaled up; otherwise it equals
\* (cpuDelta / systemDelta) x onlineCpus x 100 (a quotient of deltas of
\* opposite signs is negative, and cpu_percent never is); a scale-up
\* happens only when cpu_percent is strictly greater than the threshold.
CpuPercentAsStated ==
    StatsRead =>
        /\ ~HasBaseline(stats) => cpu_percent = F64Zero
        /\ (HasDeltas(stats) /\ (CpuDelta(stats) = 0 \/ SystemDelta(stats) = 0))
               => cpu_percent = F64Zero
        /\ (HasDeltas(stats) /\ CpuDelta(stats) # 0 /\ SystemDelta(stats) # 0)
               => /\ (CpuDelta(stats) > 0) = (SystemDelta(stats) > 0)
                  /\ IsUtilization(Abs(CpuDelta(stats)),
                                   Abs(SystemDelta(stats)),
                                   IF OnlineKeyError(stats) THEN 0
                                   ELSE OnlineCpus(stats))
        /\ ScaledOnlyAboveThreshold

\* C14 as amended: cpu_percent is 0 when cpuDelta <= 0, systemDelta <= 0 or
\* a field the computation reads is missing (of the current sample or of
\* the baseline, or percpu_usage when online_cpus is 0), and then nothing is
\* scaled up; when both deltas are positive it is
\* (cpuDelta / systemDelta) x onlineCpus x 100 as binary64 arithmetic gives
\* it, each operation rounded to the nearest float; a scale-up happens only
\* when cpu_percent is strictly greater than the threshold.
CpuPercentOfPositiveDeltas ==
    StatsRead =>
        /\ ~HasDeltas(stats) => cpu_percent = F64Zero
        /\ (HasDeltas(stats) /\ (CpuDelta(stats) <= 0 \/ SystemDelta(stats) <= 0))
               => cpu_percent = F64Zero
        /\ (HasDeltas(stats) /\ CpuDelta(stats) > 0 /\ SystemDelta(stats) > 0)
               => IF OnlineKeyError(stats) THEN cpu_percent = F64Zero
                  ELSE IsUtilization(CpuDelta(stats), SystemDelta(stats),
                                     OnlineCpus(stats))
        /\ cpu_percent = F64Zero => \A s \in SvcSet : scaled[s] = 0
        /\ ScaledOnlyAboveThreshold

\* A Healthy service whose snapshot had positive deltas on two CPUs was
\* scaled up once, its utilization being above the threshold of its rule.
CpuPercentWitness ==
    /\ StatsRead
    /\ HasDeltas(stats)
    /\ CpuDelta(stats) > 0 /\ SystemDelta(stats) > CpuDelta(stats)
    /\ ~OnlineKeyError(stats) /\ OnlineCpus(stats) = 2
    /\ cpu_percent # F64Zero
    /\ evald["web"] /\ verdict["web"] = "healthy"
    /\ scaled["web"] = 1

\* C15: every replica carries the environment label and the replica marker
\* and has no host port bindings; a replica of the externally routed service
\* carries the same routing labels, keys and values, as the primary
\* container of that service created at deploy.
ReplicaRouting ==
    \A c \in Range(containers) :
        c.rep # 0 =>
            /\ HasEnvLabel(c, m_env)
            /\ <<"autotest.type">> \in DOMAIN c.labels
            /\ c.labels[<<"autotest.type">>] = <<"replica">>
            /\ c.ports = {}
            /\ c.svc = "web" =>
                   RoutingLabels(c.labels) =
                       RoutingLabels(Container(m_env, "web", 0).labels)

\* Two replicas of the routed service exist beside its primary container,
\* each with the router rule of the primary.
ReplicaRoutingWitness ==
    /\ Exists(Container(m_env, "web", 0))
    /\ \E c, d \in Range(containers) :
         /\ c # d
         /\ c.rep # 0 /\ d.rep # 0
         /\ c.svc = "web" /\ d.svc = "web"
         /\ RouterRuleKey(ContainerName(m_env, "web", 0)) \in DOMAIN c.labels
         /\ RouterRuleKey(ContainerName(m_env, "web", 0)) \in DOMAIN d.labels

\* A removal call for resource x of the given kind is in the log
Attempted(kind, x) ==
    \E i \in 1..Len(t_log) : t_log[i][1] = kind /\ t_log[i][2] = x

\* C18: every removal call for a container precedes every removal call for
\* a network, and by the first network call every listed container has had
\* its call; answers "already gone" raise nothing and stop nothing: unless a
\* call was answered with an API error or a label query with an exception,
\* every labelled resource that a reachable runtime held is gone when
\* destroy_environment returns, and it returns normally; an API error
\* of a network removal is not raised and comes after the removal calls of
\* all listed containers.
TeardownOrder ==
    /\ \A i, j \in 1..Len(t_log) :
          (t_log[i][1] = "network" /\ t_log[j][1] = "container") => j < i
    /\ (\E n \in EnvIds : Attempted("network", n)) =>
          \A c \in t_pre.c : Attempted("container", c)
    /\ (tpc = "done" /\ t_result \notin {"EnvironmentNotFound", "ConnectionError"}
            /\ ~RemovalRefused /\ ~ListFailed) =>
          /\ t_result = "ok"
          /\ \A c \in t_pre.c : Attempted("container", c)
          /\ LabelledContainers(t_env) = {}
          /\ LabelledNetworks(t_env) = {}
    /\ (tpc = "done" /\ \E i \in 1..Len(t_log) :
                           t_log[i][1] = "network" /\ t_log[i][3] = "APIError") =>
          /\ t_result = "ok"
          /\ \A c \in t_pre.c : Attempted("container", c)
          /\ LabelledContainers(t_env) = {}

\* A teardown found its first container already gone, removed the second,
\* was refused the removal of the network, and returned normally.
TeardownOrderWitness ==
    /\ tpc = "done" /\ t_result = "ok"
    /\ Len(t_log) = 3
    /\ t_log[1][1] = "container" /\ t_log[1][3] = "gone"
    /\ t_log[2][1] = "container" /\ t_log[2][3] = "ok"
    /\ t_log[3][1] = "network" /\ t_log[3][3] = "APIError"

\* The number of containers of service s labelled with environment e
CountContainers(e, s) ==
    Cardinality({i \in 1..Len(containers) :
                    HasEnvLabel(containers[i], e) /\ containers[i].svc = s})

\* C19: when deploy_environment has returned successfully, the runtime holds
\* one network labelled with the returned id and, for each service of the
\* manifest, one container, labelled with the id and attached to that
\* network, and no other container with the label; the keys of the returned
\* mapping are the services of the manifest.
DeployPostcondition ==
    (dpc = "done" /\ d_result = "ok") =>
        /\ Cardinality(LabelledNetworks(env_name)) = 1
        /\ \A s \in SvcSet : CountContainers(env_name, s) = 1
        /\ Cardinality(LabelledContainers(env_name)) = Len(Services)
        /\ \A c \in LabelledContainers(env_name) :
              c.network \in LabelledNetworks(env_name)
        /\ deployed_services = SvcSet

\* A second environment has been deployed successfully beside a first one.
DeployPostconditionWitness ==
    /\ dpc = "done" /\ d_result = "ok"
    /\ deployed_services = SvcSet
    /\ Len(containers) = 2 * Len(Services)
    /\ networks = EnvIds

\* C17: the probe raises nothing to its caller and returns a verdict; the
\* verdict is Healthy only if the container was reloaded and is running, an
\* address was resolved, and either the type is http_get and the response
\* has a status in 200..299 or the type is tcp_connect and the connection
\* succeeded.
ProbeNeverRaises ==
    is_healthy.raised \notin {"pending", "off"} =>
        /\ is_healthy.raised = "none"
        /\ is_healthy.value =>
              /\ probe.container.reload = "ok"
              /\ probe.container.Running
              /\ \E i \in DOMAIN probe.container.Networks :
                    probe.container.Networks[i].IPAddress # ""
              /\ \/ /\ probe.hc_rule.type = "http_get"
                    /\ probe.http.raised = "none"
                    /\ probe.http.status_code \in 200..299
                 \/ /\ probe.hc_rule.type = "tcp_connect"
                    /\ probe.tcp = "connected"

\* A probe of a running container with an address returned Unhealthy for a
\* port that int() refuses, although a connection would have succeeded.
ProbeNeverRaisesWitness ==
    /\ is_healthy = Returns(FALSE)
    /\ probe.container.reload = "ok"
    /\ probe.container.Running
    /\ ResolveIp(probe.container.Networks) # ""
    /\ probe.hc_rule.type = "tcp_connect"
    /\ ~IntParses(probe.hc_rule.port)
    /\ probe.tcp = "connected"

\* Some health_check of the manifest lacks a type, has a type other than
\* http_get and tcp_connect, or lacks the field its type requires
InvalidHealthCheck ==
    /\ HasKey(manifest, "services")
    /\ \E s \in DOMAIN manifest.services :
          /\ HasKey(manifest.services[s], "health_check")
          /\ LET hc == manifest.services[s].health_check
             IN \/ ~HasKey(hc, "type")
                \/ /\ HasKey(hc, "type")
                   /\ \/ hc.type \notin {"http_get", "tcp_connect"}
                      \/ hc.type = "http_get" /\ ~HasKey(hc, "endpoint")
                      \/ hc.type = "tcp_connect" /\ ~HasKey(hc, "port")

\* C20: for a manifest that is empty, has no services section or has an
\* invalid health_check, the deploy command ends with status 1 before any
\* runtime operation: no id is generated, no network and no container is
\* created, no removal is called.
InvalidManifestNotApplied ==
    (DOMAIN manifest = {} \/ ~HasKey(manifest, "services") \/ InvalidHealthCheck)
        => /\ cli \in {"idle", "exit 1"}
           /\ dpc = "idle"
           /\ issued = {}
           /\ containers = <<>> /\ networks = {}
           /\ t_log = <<>>

\* The deploy command has ended with status 1 on a manifest whose first
\* service is valid and whose second has an http_get check without endpoint.
InvalidManifestWitness ==
    /\ cli = "exit 1"
    /\ HasKey(manifest, "services")
    /\ HasKey(manifest.services["web"], "health_check")
    /\ ~HcInvalid(manifest.services["web"].health_check)
    /\ HasKey(manifest.services["db"], "health_check")
    /\ HasKey(manifest.services["db"].health_check, "type")
    /\ manifest.services["db"].health_check.type = "http_get"
    /\ ~HasKey(manifest.services["db"].health_check, "endpoint")
    /\ networks = {}

\* C21: at every cycle boundary of the monitoring loop the counter n of each
\* monitored service with retries >= 1 satisfies 0 <= n < retries, for every
\* sequence of probe verdicts and restart outcomes.
FailureCounterRange ==
    mpc = "sleep" =>
        \A s \in Range(Monitored) :
            config[s].retries >= 1 =>
                0 <= failure_counts[s] /\ failure_counts[s] < config[s].retries

\* C23: in no cycle is a service both probed Healthy and restarted, for
\* every retries value and every outcome of the autoscaling step.
HealthyNeverRestarted ==
    \A s \in SvcSet : ~(verdict[s] = "healthy" /\ restarts[s] > 0)

\* The loop body of lines 345-407 is running for service Monitored[m_i]
Evaluating == mpc \in InTry \ {"sleep"}

\* No container of service b is created by this step
NoContainerCreatedFor(b) ==
    {c \in Range(containers') : c.svc = b}
        \subseteq {c \in Range(containers) : c.svc = b}

\* A step of the evaluation of one service leaves every other service alone
IsolatedStep ==
    Evaluating =>
        \A b \in SvcSet \ {Monitored[m_i]} :
            /\ failure_counts'[b] = failure_counts[b]
            /\ verdict'[b] = verdict[b]
            /\ restarts'[b] = restarts[b]
            /\ scaled'[b] = scaled[b]
            /\ evald'[b] = evald[b]
            /\ NoContainerCreatedFor(b)

\* While service number m_i is evaluated, exactly the services before it
\* in services_to_monitor have been evaluated in this cycle, and none after
\* it has been probed
EvaluatedInOrder ==
    Evaluating =>
        \A j \in 1..Len(Monitored) :
            /\ evald[Monitored[j]] <=> j < m_i
            /\ j > m_i => verdict[Monitored[j]] = "none"
            /\ j < m_i => verdict[Monitored[j]] # "none"

\* A cycle that reaches its end has evaluated every monitored service
CycleEndsComplete ==
    (Evaluating /\ mpc' = "sleep") =>
        \A j \in 1..Len(Monitored) : evald'[Monitored[j]]

\* C24: within a cycle the monitored services are evaluated one at a time,
\* each once, in the order of services_to_monitor, and every step of the
\* evaluation of one service (verdict, exception handling, restart,
\* scale-up) leaves the counter of every other service unchanged and issues
\* no restart and no replica creation for it.
PerServiceIsolation ==
    []EvaluatedInOrder /\ [][IsolatedStep /\ CycleEndsComplete]_vars

\* A cycle has ended in which web was found Unhealthy below its threshold and
\* db, evaluated after it, Healthy: web keeps its counter and got no restart.
PerServiceIsolationWitness ==
    /\ mpc = "sleep"
    /\ Monitored = <<"web", "db">>
    /\ evald["web"] /\ evald["db"]
    /\ verdict["web"] = "unhealthy" /\ verdict["db"] = "healthy"
    /\ failure_counts["web"] = 1 /\ failure_counts["db"] = 0
    /\ restarts["web"] = 0 /\ restarts["db"] = 0

\* A container created by _scale_service_up: it carries the replica marker
IsReplica(c) ==
    /\ <<"autotest.type">> \in DOMAIN c.labels
    /\ c.labels[<<"autotest.type">>] = <<"replica">>

\* C22: every replica is attached to the network of its environment, the
\* one labelled with the environment id, also when the primary container of
\* its service is connected to the environment network and to the ingress
\* network.
ReplicaOnEnvNetwork ==
    \A c \in Range(containers) :
        IsReplica(c) =>
            /\ c.network \in networks
            /\ HasEnvLabel(Network(c.network), m_env)

\* A replica of web exists on the environment network while the primary
\* container of web is connected to both networks.
ReplicaOnEnvNetworkWitness ==
    /\ ContainerName(m_env, "web", 0) \in network_traefik
    /\ attrs_networks = <<m_env, TRAEFIK_NETWORK>>
    /\ \E c \in Range(containers) :
         /\ IsReplica(c)
         /\ c.svc = "web"
         /\ c.network = m_env
         /\ ContainerName(c.env, c.svc, c.rep) \in network_traefik

\* Labels that do not hold autotest.env.name = e
NotOfEnv(labels, e) ==
    ENV_LABEL \notin DOMAIN labels \/ labels[ENV_LABEL] # <<e>>

\* destroy_environment is between its entry and its return
Destroying == tpc \in {"list", "rmC", "rmN"}

\* C25: every step of destroy_environment(envId), called by the teardown
\* command or as the rollback of deploy, leaves unchanged the containers and
\* networks that do not carry autotest.env.name = envId: those of other
\* environments and the unlabelled ones, such as the ingress network, its
\* proxy container and its members.
TeardownScope ==
    [][Destroying =>
        /\ {c \in Range(containers') : NotOfEnv(c.labels, t_env)}
              = {c \in Range(containers) : NotOfEnv(c.labels, t_env)}
        /\ {n \in networks' : NotOfEnv(NetworkLabels(n), t_env)}
              = {n \in networks : NotOfEnv(NetworkLabels(n), t_env)}
        /\ \A c \in Range(containers) :
              NotOfEnv(c.labels, t_env) =>
                 (ContainerName(c.env, c.svc, c.rep) \in network_traefik'
                    <=> ContainerName(c.env, c.svc, c.rep) \in network_traefik)
    ]_vars

\* destroy_environment has removed the containers and the network of one
\* environment while the other environment, the ingress network and the
\* proxy are still there.
TeardownScopeWitness ==
    /\ tpc = "done"
    /\ t_result = "ok"
    /\ \E i, j \in 1..Len(t_log) :
         /\ t_log[i][1] = "container" /\ t_log[i][3] = "ok"
         /\ t_log[j][1] = "network" /\ t_log[j][3] = "ok"
    /\ LabelledContainers(t_env) = {} /\ LabelledNetworks(t_env) = {}
    /\ \E e \in EnvIds \ {t_env} :
         /\ e \in networks
         /\ \A s \in SvcSet : Exists(Container(e, s, 0))
         /\ ContainerName(e, "web", 0) \in network_traefik
    /\ TRAEFIK_NETWORK \in networks
    /\ Exists(IngressProxy)
    /\ ContainerName(0, "traefik", 0) \in network_traefik

====
